---- MODULE Spec2Model ----
(***************************************************************************)
(* The analytics pipeline of services/analysis_service.py:                 *)
(* generate_analytics and the four analyses it calls, over a competitor    *)
(* list, a search radius and an optional "your business" dictionary.       *)
(*                                                                         *)
(* Python floats are kept as scaled integers, each with a fixed unit:      *)
(*   radius_km                         tenths of a km                      *)
(*   latitude, longitude               hundredths of a degree              *)
(*   competitors_per_km2 (unrounded)   millionths of a competitor per km2  *)
(*   saturation_score   (unrounded)    millionths of a point               *)
(*   rating                            tenths of a star                    *)
(*   instagram bonus, online_score     thousandths of a point              *)
(*   distances (unrounded)             metres                              *)
(* and every round(x, k) of the code is RoundHalfEven to the reported      *)
(* unit: competitors_per_km2 and avg_distance in hundredths, scores,       *)
(* percentile and shares in tenths.  math.pi is 355/113.                   *)
(***************************************************************************)
EXTENDS Integers, Sequences, FiniteSets, TLC

VARIABLES competitors, radius_km, your_business,
          market_density, positioning, market_share, kpis, summary, pc,
          calls, call_input, first_call,
          store, trail, db_request, demo_pc, response,
          email_attempts, email_sent, failures, requests,
          MOCK_DATA_CACHE, log, query, found, source_pc,
          submitted, checked

vars == <<competitors, radius_km, your_business,
          market_density, positioning, market_share, kpis, summary, pc,
          calls, call_input, first_call,
          store, trail, db_request, demo_pc, response,
          email_attempts, email_sent, failures, requests,
          MOCK_DATA_CACHE, log, query, found, source_pc,
          submitted, checked>>

(* The state of generate_analytics and of its caller. *)
analytics == <<competitors, radius_km, your_business,
               market_density, positioning, market_share, kpis, summary, pc,
               calls, call_input, first_call>>

(* The state of the demo-request flow: the demo_requests table and, for each
   row, the statuses it was committed with; the DemoRequest object of the
   session, the position in process_demo_request and the answer to the
   client; how often the email was attempted and what it returned, the
   steps of the current request that raised, and the requests made. *)
demo == <<store, trail, db_request, demo_pc, response,
          email_attempts, email_sent, failures, requests>>

(* The state of the competitor source: the cache of the mock data and the
   calls of get_mock_competitors made, each with its arguments, whether the
   generator ran and the data returned; the arguments of the search, its
   result and its position. *)
source == <<MOCK_DATA_CACHE, log, query, found, source_pc>>

(* The state of the CNPJ service: the CNPJ submitted and the results of the
   calls made with it, by name. *)
registry == <<submitted, checked>>

(* The state of the services around the analytics. *)
services == <<demo, source, registry>>

(* What the caller of generate_analytics keeps: the number of calls made,
   the arguments as they were passed to the current call, and the arguments
   and the report of the first call with the number of calls made since
   with other arguments. *)
caller == <<calls, call_input, first_call>>

(* Longest competitor list the inputs hold. *)
MaxCompetitors == 3

(* Most demo requests in one behavior. *)
MaxRequests == 2

(* Most calls of generate_analytics in one behavior. *)
MaxCalls == 3

(* Largest radius_km of the inputs, in tenths of a km (50 = 5.0 km). *)
MaxRadius == 50

(* The largest max_results of a search. *)
MaxResults == 2

(* The most calls of get_mock_competitors in a behaviour. *)
MaxGets == 3

(* The widest spacing of the separators put between the digits of a CNPJ. *)
MaxStep == 3

-----------------------------------------------------------------------------
(* Python values *)

(* Python's None. *)
None == [none |-> TRUE]

(* A local of generate_analytics that has not been assigned yet. *)
Unassigned == [unassigned |-> TRUE]

(* The empty dict {}. *)
EmptyDict == [k \in {} |-> TRUE]

(* dict.get(key, default) *)
Get(d, k, default) == IF k \in DOMAIN d THEN d[k] ELSE default

(* Truth value of an Optional[Dict]: None and {} are both false. *)
Truthy(d) == d # None /\ DOMAIN d # {}

Min(a, b) == IF a <= b THEN a ELSE b

(* round(x, ndigits) for x >= 0: x is in some unit, the result in multiples
   of `unit` of it; a tie goes to the even neighbour, as Python rounds. *)
RoundHalfEven(x, unit) ==
  LET q == x \div unit
      r == x % unit
  IN  IF 2 * r < unit THEN q
      ELSE IF 2 * r > unit THEN q + 1
      ELSE IF q % 2 = 0 THEN q ELSE q + 1

(* round(num / den * 100, 1) in tenths of a percent, for num >= 0, den > 0.
   The quotient is taken exactly; Python rounds its nearest double, which at
   an exact tie (23 / 80 = 28.75) can fall a tenth to the other side. *)
RoundedPercent(num, den) ==
  LET q == (num * 1000) \div den
      r == (num * 1000) % den
  IN  IF 2 * r < den THEN q
      ELSE IF 2 * r > den THEN q + 1
      ELSE IF q % 2 = 0 THEN q ELSE q + 1

RECURSIVE SumSeq(_)
SumSeq(s) == IF s = <<>> THEN 0 ELSE Head(s) + SumSeq(Tail(s))

(* [c.f for c in s] for a field name f *)
Field(s, f) == [i \in 1..Len(s) |-> s[i][f]]

(* floor(n * 10^6 / d) for n >= 0, d > 0, by long division two digits at a
   time so that no intermediate exceeds 32 bits. *)
DivMicro(n, d) ==
  LET q0 == n \div d
      r0 == n % d
      q1 == (r0 * 100) \div d
      r1 == (r0 * 100) % d
      q2 == (r1 * 100) \div d
      r2 == (r1 * 100) % d
      q3 == (r2 * 100) \div d
  IN  q0 * 1000000 + q1 * 10000 + q2 * 100 + q3

-----------------------------------------------------------------------------
(* calculate_distance *)

(* The whole-degree latitudes, in hundredths of a degree, at which the
   floating-point a = sin(dlat/2)**2 + cos(lat1) * cos(lat2) * sin(dlng/2)**2
   of a point on the meridian 0 and its antipode on the meridian 180 comes
   out as 1.0000000000000002 instead of 1. *)
LatitudesAboveOne == {800, 1200, 8200}

(* The two points are antipodes: opposite latitudes on opposite meridians. *)
Antipodal(lat1, lng1, lat2, lng2) ==
  /\ lat2 = -lat1
  /\ lng2 - lng1 \in {18000, -18000}

(* math.sqrt(1 - a) raises ValueError("math domain error") when a > 1. *)
DomainError(lat1, lng1, lat2, lng2) ==
  /\ Antipodal(lat1, lng1, lat2, lng2)
  /\ (lat1 \in LatitudesAboveOne \/ lat2 \in LatitudesAboveOne)

(* Haversine distance in metres between two competitors.  The inputs hold
   competitors on one meridian, where a = sin(dlat/2)^2 and c = |dlat| in
   radians, so the distance is 6371 * radians(|dlat|), and antipodes, where
   c = pi and the distance is 6371 * pi. *)
calculate_distance(lat1, lng1, lat2, lng2) ==
  IF Antipodal(lat1, lng1, lat2, lng2)
  THEN ((6371 * 355 * 100) \div 113) * 10
  ELSE LET dlat == IF lat2 >= lat1 THEN lat2 - lat1 ELSE lat1 - lat2
       IN  (dlat * 6371 * 355 * 10) \div (113 * 180)

-----------------------------------------------------------------------------
(* analyze_market_density *)

(* total_competitors / (pi * radius_km ** 2), or 0 when the area is 0 *)
CompetitorsPerKm2(total_competitors, radius) ==
  IF radius * radius > 0
  THEN DivMicro(total_competitors * 113 * 100, 355 * radius * radius)
  ELSE 0

DensityLevelRounded(d) ==
  IF RoundHalfEven(d, 10000) < 50 THEN "Low"
  ELSE IF RoundHalfEven(d, 10000) < 150 THEN "Medium"
  ELSE IF RoundHalfEven(d, 10000) < 300 THEN "High"
  ELSE "Very High"

(* The density tier of the if/elif chain. *)
DensityLevel(d) ==
  IF d < 500000 THEN "Low"
  ELSE IF d < 1500000 THEN "Medium"
  ELSE IF d < 3000000 THEN "High"
  ELSE "Very High"

SaturationScoreUncapped(d) ==
  IF d < 500000 THEN Min(d * 40, 25000000)
  ELSE IF d < 1500000 THEN 25000000 + Min((d - 500000) * 30, 25000000)
  ELSE IF d < 3000000 THEN 50000000 + Min((d - 1500000) * 20, 30000000)
  ELSE 80000000 + (d - 3000000) * 5

SaturationScoreLowHighBase(d) ==
  IF d < 500000 THEN Min(d * 40, 25000000)
  ELSE IF d < 1500000 THEN 25000000 + Min((d - 500000) * 30, 25000000)
  ELSE IF d < 3000000 THEN 40000000 + Min((d - 1500000) * 20, 30000000)
  ELSE Min(80000000 + (d - 3000000) * 5, 100000000)

(* The saturation score of the if/elif chain, before rounding. *)
SaturationScore(d) ==
  IF d < 500000 THEN Min(d * 40, 25000000)
  ELSE IF d < 1500000 THEN 25000000 + Min((d - 500000) * 30, 25000000)
  ELSE IF d < 3000000 THEN 50000000 + Min((d - 1500000) * 20, 30000000)
  ELSE Min(80000000 + (d - 3000000) * 5, 100000000)

(* The distances list: one entry per pair i < j, in the loops' order. *)
RECURSIVE PairDistances(_)
PairDistances(comps) ==
  IF Len(comps) <= 1 THEN <<>>
  ELSE [j \in 1..(Len(comps) - 1) |->
          calculate_distance(comps[1].latitude, comps[1].longitude,
                             comps[j + 1].latitude, comps[j + 1].longitude)]
       \o PairDistances(Tail(comps))

AvgDistanceAnyCompetitor(comps, radius) ==
  IF Len(comps) > 0
  THEN LET distances == PairDistances(comps)
       IN  IF Len(distances) > 0 THEN SumSeq(distances) \div Len(distances)
           ELSE 0
  ELSE radius * 2 * 100

(* avg_distance in metres: the mean over all pairs, or 2 * radius_km. *)
AvgDistance(comps, radius) ==
  IF Len(comps) > 1
  THEN LET distances == PairDistances(comps)
       IN  IF Len(distances) > 0 THEN SumSeq(distances) \div Len(distances)
           ELSE 0
  ELSE radius * 2 * 100

(* Some call of calculate_distance in the loops over the pairs raises. *)
DistanceRaises(comps) ==
  \E i, j \in 1..Len(comps) :
    /\ i < j
    /\ DomainError(comps[i].latitude, comps[i].longitude,
                   comps[j].latitude, comps[j].longitude)

(* round(saturation_score, 1), in tenths of a point *)
ReportedScore(d) == RoundHalfEven(SaturationScore(d), 100000)

analyze_market_density(comps, radius) ==
  LET total_competitors == Len(comps)
      competitors_per_km2 == CompetitorsPerKm2(total_competitors, radius)
  IN  [total_competitors |-> total_competitors,
       competitors_per_km2 |-> RoundHalfEven(competitors_per_km2, 10000),
       density_level |-> DensityLevel(competitors_per_km2),
       market_saturation_score |-> ReportedScore(competitors_per_km2),
       avg_distance_between_competitors |->
         RoundHalfEven(AvgDistance(comps, radius), 10)]

-----------------------------------------------------------------------------
(* sorted(..., reverse=True) and list.index *)

(* The descending list s with v inserted after every entry >= v: where a
   stable sort puts the later of two equal entries. *)
RECURSIVE InsertDescending(_, _)
InsertDescending(s, v) ==
  IF s = <<>> THEN <<v>>
  ELSE IF Head(s) >= v
       THEN <<Head(s)>> \o InsertDescending(Tail(s), v)
       ELSE <<v>> \o s

(* sorted(s, reverse=True) of a list of numbers *)
RECURSIVE SortedReverse(_)
SortedReverse(s) ==
  IF s = <<>> THEN <<>>
  ELSE InsertDescending(SortedReverse(SubSeq(s, 1, Len(s) - 1)), s[Len(s)])

IndexLast(s, v) ==
  CHOOSE i \in 1..Len(s) : s[i] = v /\ \A j \in (i + 1)..Len(s) : s[j] # v

(* s.index(v) + 1: the 1-based position of the first entry equal to v *)
IndexOf(s, v) ==
  CHOOSE i \in 1..Len(s) : s[i] = v /\ \A j \in 1..(i - 1) : s[j] # v

-----------------------------------------------------------------------------
(* analyze_competitive_positioning *)

YourRankingLastMatch(your_rating, comps) ==
  IndexLast(SortedReverse(Field(comps, "rating") \o <<your_rating>>),
            your_rating)

YourRankingZeroBased(your_rating, comps) ==
  IndexOf(SortedReverse(Field(comps, "rating") \o <<your_rating>>),
          your_rating) - 1

(* sorted_ratings.index(your_rating) + 1 *)
YourRanking(your_rating, comps) ==
  IndexOf(SortedReverse(Field(comps, "rating") \o <<your_rating>>),
          your_rating)

OnlineScoreBonusAlways(your_online) ==
  LET website == IF Get(your_online, "has_website", FALSE) THEN 40000 ELSE 0
      instagram == IF Get(your_online, "has_instagram", FALSE) THEN 30000 ELSE 0
      bonus == Min(Get(your_online, "instagram_followers", 0), 20000)
      facebook == IF Get(your_online, "has_facebook", FALSE) THEN 10000 ELSE 0
  IN  Min(website + instagram + bonus + facebook, 100000)

(* online_score in thousandths of a point: followers / 1000 points is
   `followers` thousandths. *)
OnlineScore(your_online) ==
  LET website == IF Get(your_online, "has_website", FALSE) THEN 40000 ELSE 0
      instagram ==
        IF Get(your_online, "has_instagram", FALSE)
        THEN 30000 + Min(Get(your_online, "instagram_followers", 0), 20000)
        ELSE 0
      facebook == IF Get(your_online, "has_facebook", FALSE) THEN 10000 ELSE 0
  IN  Min(website + instagram + facebook, 100000)

PositioningWhenNotNone(business, comps) ==
  IF business = None THEN None
  ELSE
    LET your_rating == Get(business, "rating", 40)
        your_reviews == Get(business, "review_count", 50)
        your_online == Get(business, "online_presence", EmptyDict)
        your_ranking == YourRanking(your_rating, comps)
        total == Len(comps) + 1
    IN  [your_ranking |-> your_ranking,
         total_competitors |-> total,
         percentile |-> IF total > 0
                        THEN RoundedPercent(total - your_ranking, total)
                        ELSE 0,
         above_average_rating |->
           IF Len(comps) > 0
           THEN your_rating * Len(comps) > SumSeq(Field(comps, "rating"))
           ELSE your_rating > 40,
         above_average_reviews |->
           IF Len(comps) > 0
           THEN your_reviews * Len(comps) > SumSeq(Field(comps, "review_count"))
           ELSE your_reviews > 100,
         online_presence_score |-> RoundHalfEven(OnlineScore(your_online), 100)]

(* Comparisons with the averages are taken exactly: x > sum / len is
   x * len > sum. *)
analyze_competitive_positioning(business, comps) ==
  IF ~Truthy(business) THEN None
  ELSE
    LET your_rating == Get(business, "rating", 40)
        your_reviews == Get(business, "review_count", 50)
        your_online == Get(business, "online_presence", EmptyDict)
        your_ranking == YourRanking(your_rating, comps)
        total == Len(comps) + 1
    IN  [your_ranking |-> your_ranking,
         total_competitors |-> total,
         percentile |-> IF total > 0
                        THEN RoundedPercent(total - your_ranking, total)
                        ELSE 0,
         above_average_rating |->
           IF Len(comps) > 0
           THEN your_rating * Len(comps) > SumSeq(Field(comps, "rating"))
           ELSE your_rating > 40,
         above_average_reviews |->
           IF Len(comps) > 0
           THEN your_reviews * Len(comps) > SumSeq(Field(comps, "review_count"))
           ELSE your_reviews > 100,
         online_presence_score |-> RoundHalfEven(OnlineScore(your_online), 100)]

-----------------------------------------------------------------------------
(* estimate_market_share *)

RECURSIVE InsertByRevenueBeforeEqual(_, _)
InsertByRevenueBeforeEqual(s, c) ==
  IF s = <<>> THEN <<c>>
  ELSE IF Head(s).estimated_monthly_revenue > c.estimated_monthly_revenue
       THEN <<Head(s)>> \o InsertByRevenueBeforeEqual(Tail(s), c)
       ELSE <<c>> \o s

(* The list s, descending by revenue, with competitor c inserted after every
   entry whose revenue is >= c's. *)
RECURSIVE InsertByRevenue(_, _)
InsertByRevenue(s, c) ==
  IF s = <<>> THEN <<c>>
  ELSE IF Head(s).estimated_monthly_revenue >= c.estimated_monthly_revenue
       THEN <<Head(s)>> \o InsertByRevenue(Tail(s), c)
       ELSE <<c>> \o s

(* sorted(competitors, key=lambda x: x.estimated_monthly_revenue,
   reverse=True): descending, equal revenues in input order *)
RECURSIVE SortedByRevenue(_)
SortedByRevenue(comps) ==
  IF comps = <<>> THEN <<>>
  ELSE InsertByRevenue(SortedByRevenue(SubSeq(comps, 1, Len(comps) - 1)),
                       comps[Len(comps)])

CompetitorsSortedInPlace(comps) == SortedByRevenue(comps)

(* The argument list after sorted(competitors, ...): sorted() builds a new
   list and leaves its argument as it was. *)
CompetitorsAfterSorted(comps) == comps

FirstTwo(s) == SubSeq(s, 1, Min(2, Len(s)))

(* sorted_comps[:3] *)
FirstThree(s) == SubSeq(s, 1, Min(3, Len(s)))

TotalMarketRevenueCompetitorsOnly(business, comps) ==
  SumSeq(Field(comps, "estimated_monthly_revenue"))

(* total_market_revenue: the competitors' revenues plus the caller's *)
TotalMarketRevenue(business, comps) ==
  SumSeq(Field(comps, "estimated_monthly_revenue"))
  + (IF Truthy(business)
     THEN Get(business, "estimated_monthly_revenue", 0)
     ELSE 0)

MarketStructureOnRounded(top_3_revenue, total_market_revenue) ==
  LET cr3 == IF total_market_revenue > 0
             THEN RoundedPercent(top_3_revenue, total_market_revenue)
             ELSE 0
  IN  IF cr3 < 400 THEN "Fragmented"
      ELSE IF cr3 < 700 THEN "Moderate"
      ELSE "Concentrated"

(* The label of the if/elif chain on the unrounded cr3, for total > 0:
   cr3 < 40 is top_3_revenue * 100 < 40 * total. *)
MarketStructure(top_3_revenue, total_market_revenue) ==
  LET below(t) == IF total_market_revenue > 0
                  THEN top_3_revenue * 100 < t * total_market_revenue
                  ELSE 0 < t
  IN  IF below(40) THEN "Fragmented"
      ELSE IF below(70) THEN "Moderate"
      ELSE "Concentrated"

estimate_market_share(business, comps) ==
  IF comps = <<>> THEN None
  ELSE
    LET sorted_comps == SortedByRevenue(comps)
        total_market_revenue == TotalMarketRevenue(business, comps)
        first == FirstThree(sorted_comps)
        top_3 == [i \in 1..Len(first) |->
                    [name |-> first[i].name,
                     estimated_revenue |-> first[i].estimated_monthly_revenue,
                     market_share |->
                       IF total_market_revenue > 0
                       THEN RoundedPercent(first[i].estimated_monthly_revenue,
                                           total_market_revenue)
                       ELSE 0]]
        top_3_revenue == SumSeq(Field(first, "estimated_monthly_revenue"))
        your_share ==
          IF Truthy(business) /\ total_market_revenue > 0
          THEN RoundedPercent(Get(business, "estimated_monthly_revenue", 0),
                              total_market_revenue)
          ELSE 0
    IN  [your_estimated_share |-> your_share,
         top_3_competitors |-> top_3,
         concentration_ratio |->
           IF total_market_revenue > 0
           THEN RoundedPercent(top_3_revenue, total_market_revenue)
           ELSE 0,
         market_structure |->
           MarketStructure(top_3_revenue, total_market_revenue)]

-----------------------------------------------------------------------------
(* generate_kpi_recommendations *)

(* One KPIRecommendation: its metric, the numbers its current_value and
   benchmark_value strings are formatted from, and its priority. *)
Recommendation(metric, current, benchmark, priority) ==
  [metric |-> metric, current_value |-> current,
   benchmark_value |-> benchmark, priority |-> priority]

(* f"{count / n * 100:.0f}": the percentage rounded to a whole number *)
WholePercent(count, n) == RoundHalfEven(count * 100, n)

PercentageAtLeast(count, n, threshold) == count * 100 >= threshold * n

(* pct_with_... > threshold, for pct = count / n * 100 *)
PercentageAbove(count, n, threshold) == count * 100 > threshold * n

RuleOrderMarketLast(rating_rec, reviews_rec, instagram_rec, saturation_rec, delivery_rec, pix_rec) ==
  rating_rec \o reviews_rec \o instagram_rec \o delivery_rec \o pix_rec
  \o saturation_rec

(* The order of the appends to `recommendations`. *)
RuleOrder(rating_rec, reviews_rec, instagram_rec, saturation_rec, delivery_rec, pix_rec) ==
  rating_rec \o reviews_rec \o instagram_rec \o saturation_rec
  \o delivery_rec \o pix_rec

generate_kpi_recommendations(business, comps, density, pos) ==
  IF comps = <<>> THEN <<>>
  ELSE
    LET n == Len(comps)
        sum_rating == SumSeq(Field(comps, "rating"))
        sum_reviews == SumSeq(Field(comps, "review_count"))
        with_instagram ==
          Cardinality({i \in 1..n : comps[i].online_presence.has_instagram})
        with_delivery == Cardinality({i \in 1..n : comps[i].has_delivery})
        with_pix == Cardinality({i \in 1..n : comps[i].accepts_pix})
        your_rating == Get(business, "rating", 0)
        your_reviews == Get(business, "review_count", 0)
        has_instagram ==
          Get(Get(business, "online_presence", EmptyDict), "has_instagram", FALSE)
        rating_rec ==
          IF Truthy(business) /\ your_rating * n < sum_rating
          THEN <<Recommendation("Avaliacao Google", your_rating,
                                RoundHalfEven(sum_rating, n), "High")>>
          ELSE <<>>
        reviews_rec ==
          IF Truthy(business) /\ your_reviews * n < sum_reviews
          THEN <<Recommendation("Numero de Avaliacoes", your_reviews,
                                sum_reviews \div n, "Medium")>>
          ELSE <<>>
        instagram_rec ==
          IF Truthy(business) /\ ~has_instagram
             /\ PercentageAbove(with_instagram, n, 50)
          THEN <<Recommendation("Presenca no Instagram", 0,
                                WholePercent(with_instagram, n), "High")>>
          ELSE <<>>
        saturation_rec ==
          IF density.market_saturation_score > 700
          THEN <<Recommendation("Saturacao de Mercado",
                                RoundHalfEven(density.market_saturation_score, 10),
                                50, "High")>>
          ELSE <<>>
        delivery_rec ==
          IF PercentageAbove(with_delivery, n, 60) /\ Truthy(business)
             /\ ~Get(business, "has_delivery", FALSE)
          THEN <<Recommendation("Delivery", 0,
                                WholePercent(with_delivery, n), "High")>>
          ELSE <<>>
        pix_rec ==
          IF PercentageAbove(with_pix, n, 70) /\ Truthy(business)
             /\ ~Get(business, "accepts_pix", FALSE)
          THEN <<Recommendation("Pagamento PIX", 0,
                                WholePercent(with_pix, n), "High")>>
          ELSE <<>>
        recommendations ==
          RuleOrder(rating_rec, reviews_rec, instagram_rec, saturation_rec,
                    delivery_rec, pix_rec)
    IN  IF Len(recommendations) = 0
        THEN <<Recommendation("Manutencao de Lideranca", 0, 0, "Medium")>>
        ELSE recommendations

-----------------------------------------------------------------------------
(* generate_analytics *)

TopRemarkAboveHalf(pos) == pos # None /\ pos.percentile > 500

(* if positioning and positioning.percentile >= 50 *)
TopRemark(pos) == pos # None /\ pos.percentile >= 500

(* summary_parts: one entry per sentence, with the values it prints. *)
SummaryParts(comps, radius, density, share, pos) ==
  <<[part |-> "competitors", count |-> Len(comps), radius_km |-> radius],
    [part |-> "density", density_level |-> density.density_level,
     competitors_per_km2 |-> RoundHalfEven(density.competitors_per_km2, 10)]>>
  \o (IF share # None
      THEN <<[part |-> "structure", market_structure |-> share.market_structure]>>
      ELSE <<>>)
  \o (IF TopRemark(pos)
      THEN <<[part |-> "top", percent |-> RoundHalfEven(1000 - pos.percentile, 10)]>>
      ELSE <<>>)

-----------------------------------------------------------------------------
(* Inputs *)

Names ==
  <<"c1", "c2", "c3", "c4", "c5", "c6", "c7", "c8", "c9", "c10", "c11", "c12">>

Lengths == 0..MaxCompetitors

(* A Competitor record with the fields the analyses read, on the meridian
   0 at `latitude` hundredths of a degree north. *)
Competitor(i, rating, reviews, revenue, social, service, latitude) ==
  [name |-> Names[i], rating |-> rating, review_count |-> reviews,
   estimated_monthly_revenue |-> revenue,
   online_presence |-> [has_instagram |-> social, has_website |-> social],
   has_delivery |-> service, accepts_pix |-> service,
   latitude |-> latitude, longitude |-> 0]

(* The mock "your business" of main.py and demo_service.py. *)
MockBusiness ==
  [rating |-> 42, review_count |-> 87,
   online_presence |-> [has_website |-> FALSE, has_instagram |-> TRUE,
                        has_facebook |-> TRUE, instagram_followers |-> 1500],
   estimated_monthly_revenue |-> 45000, has_delivery |-> TRUE,
   accepts_pix |-> TRUE]

Input(comps, radius, business) ==
  [competitors |-> comps, radius_km |-> radius, your_business |-> business]

(* Any number of like competitors, spread along the meridian, in every radius
   from 0 to MaxRadius. *)
DensityInputs ==
  {Input([i \in 1..k |-> Competitor(i, 40, 100, 100, TRUE, TRUE, i * spread)],
         radius, None) :
     k \in Lengths, spread \in 0..2, radius \in 0..MaxRadius}

RatingProfiles ==
  {None, EmptyDict, [review_count |-> 60]}
  \cup {[rating |-> r, review_count |-> 120] : r \in {30, 35, 42, 48, 50}}

FollowerCounts == {0, 150, 1234, 20000, 25000}

OnlineProfiles ==
  {[rating |-> 42, online_presence |-> EmptyDict],
   [rating |-> 42, online_presence |-> [has_instagram |-> TRUE]]}
  \cup {[rating |-> 42,
         online_presence |-> [has_website |-> w, has_instagram |-> i,
                              has_facebook |-> f, instagram_followers |-> n]] :
          w \in BOOLEAN, i \in BOOLEAN, f \in BOOLEAN, n \in FollowerCounts}

PositioningInputs ==
  {Input([i \in 1..k |-> Competitor(i, ratings[i], 100, 100, TRUE, TRUE, 0)],
         50, business) :
     ratings \in [1..MaxCompetitors -> {35, 42, 48}], k \in Lengths,
     business \in RatingProfiles}
  \cup {Input([i \in 1..k |-> Competitor(i, 40, 100, 100, TRUE, TRUE, 0)],
              50, business) :
          k \in {0, 1}, business \in OnlineProfiles}

RevenueProfiles ==
  {None, EmptyDict, [rating |-> 42]}
  \cup {[estimated_monthly_revenue |-> r] : r \in {0, 100, 400}}

ShareInputs ==
  {Input([i \in 1..k |-> Competitor(i, 40, 100, revenues[i], TRUE, TRUE, 0)],
         50, business) :
     revenues \in [1..MaxCompetitors -> {0, 100, 200, 300}], k \in Lengths,
     business \in RevenueProfiles}

(* One competitor and a caller whose revenues put CR3 at and just below
   the labels' thresholds: 39.96, 40, 69.96 and 70 percent of 10000. *)
ThresholdShareInputs ==
  {Input(<<Competitor(1, 40, 100, revenue, TRUE, TRUE, 0)>>, 50,
         [estimated_monthly_revenue |-> 10000 - revenue]) :
     revenue \in {3996, 4000, 6996, 7000}}

(* Lists two longer than the other families', so that competitors are left
   outside the top three, with equal revenues inside and outside it. *)
TopThreeInputs ==
  {Input([i \in 1..(MaxCompetitors + 2) |->
            Competitor(i, 40, 100, revenues[i], TRUE, TRUE, 0)], 50, None) :
     revenues \in [1..(MaxCompetitors + 2) -> {100, 200, 300}]}

(* Two competitors at whole-degree antipodes, and a third next to the
   first. *)
AntipodalInputs ==
  {Input([i \in 1..k |->
            IF i = 2
            THEN [Competitor(2, 40, 100, 100, TRUE, TRUE, -latitude)
                    EXCEPT !.longitude = 18000]
            ELSE Competitor(i, 40, 100, 100, TRUE, TRUE, latitude)],
         50, business) :
     k \in {2, 3}, latitude \in {0, 800, 4500, 8200},
     business \in {None, MockBusiness}}

(* A caller whose rating and review count equal the means of two unlike
   competitors, and who has none of the three capabilities. *)
CallerAtMean ==
  [rating |-> 40, review_count |-> 100,
   online_presence |-> [has_instagram |-> FALSE],
   has_delivery |-> FALSE, accepts_pix |-> FALSE]

KpiProfiles ==
  {None, EmptyDict, MockBusiness, CallerAtMean,
   [rating |-> 35, review_count |-> 20, has_delivery |-> FALSE],
   [rating |-> 42, review_count |-> 87,
    online_presence |-> [has_instagram |-> TRUE],
    has_delivery |-> TRUE, accepts_pix |-> FALSE],
   [rating |-> 50, review_count |-> 500,
    online_presence |-> [has_instagram |-> TRUE],
    has_delivery |-> TRUE, accepts_pix |-> TRUE]}

(* k competitors of which the first `social` have Instagram and a rating of
   4.5 (the others 3.5) and the last `service` offer delivery and PIX and
   have 150 reviews (the others 50). *)
KpiCompetitors(k, social, service) ==
  [i \in 1..k |->
     Competitor(i, IF i <= social THEN 45 ELSE 35,
                IF i > k - service THEN 150 ELSE 50, 100,
                i <= social, i > k - service, 0)]

KpiInputs ==
  {Input(KpiCompetitors(k, Min(k, social), Min(k, service)), radius, business) :
     k \in Lengths, social \in Lengths, service \in Lengths,
     radius \in {5, 50}, business \in KpiProfiles}

(* Lists of 5 and of 10 competitors of which exactly 60% and exactly 70%
   offer delivery and PIX, and one more than that. *)
ThresholdKpiInputs ==
  {Input(KpiCompetitors(size[1], size[2], size[3]), 50, business) :
     size \in {<<5, 3, 3>>, <<5, 2, 4>>, <<10, 5, 7>>, <<10, 6, 8>>},
     business \in {None, CallerAtMean}}

Inputs ==
  DensityInputs \cup PositioningInputs \cup ShareInputs \cup KpiInputs
  \cup ThresholdShareInputs \cup TopThreeInputs \cup ThresholdKpiInputs
  \cup AntipodalInputs

-----------------------------------------------------------------------------
(* generate_analytics, one action per statement *)

(* No demo request has been made. *)
DemoIdle ==
  /\ store = <<>>
  /\ trail = <<>>
  /\ db_request = None
  /\ demo_pc = "create"
  /\ response = None
  /\ email_attempts = 0
  /\ email_sent = FALSE
  /\ failures = {}
  /\ requests = 1

(* No search has been made and the cache of the mock data is empty. *)
SourceIdle ==
  /\ MOCK_DATA_CACHE = EmptyDict
  /\ log = <<>>
  /\ query = None
  /\ found = Unassigned
  /\ source_pc = "idle"

(* No CNPJ has been submitted. *)
RegistryIdle ==
  /\ submitted = <<>>
  /\ checked = EmptyDict

(* The services around the analytics are at rest. *)
ServicesIdle == DemoIdle /\ SourceIdle /\ RegistryIdle

Init ==
  /\ ServicesIdle
  /\ \E input \in Inputs :
       /\ competitors = input.competitors
       /\ radius_km = input.radius_km
       /\ your_business = input.your_business
  /\ market_density = Unassigned
  /\ positioning = Unassigned
  /\ market_share = Unassigned
  /\ kpis = Unassigned
  /\ summary = Unassigned
  /\ pc = "market_density"
  /\ calls = 1
  /\ call_input = Input(competitors, radius_km, your_business)
  /\ first_call = Unassigned

(* market_density = analyze_market_density(competitors, radius_km); the
   ValueError of calculate_distance is not caught and ends the call. *)
AnalyzeMarketDensity ==
  /\ pc = "market_density"
  /\ IF DistanceRaises(competitors)
     THEN /\ pc' = "raised"
          /\ UNCHANGED market_density
     ELSE /\ market_density' = analyze_market_density(competitors, radius_km)
          /\ pc' = "positioning"
  /\ UNCHANGED <<competitors, radius_km, your_business,
                 positioning, market_share, kpis, summary, caller, services>>

(* positioning = analyze_competitive_positioning(your_business, competitors) *)
AnalyzeCompetitivePositioning ==
  /\ pc = "positioning"
  /\ positioning' = analyze_competitive_positioning(your_business, competitors)
  /\ pc' = "market_share"
  /\ UNCHANGED <<competitors, radius_km, your_business,
                 market_density, market_share, kpis, summary, caller, services>>

(* market_share = estimate_market_share(your_business, competitors) *)
EstimateMarketShare ==
  /\ pc = "market_share"
  /\ market_share' = estimate_market_share(your_business, competitors)
  /\ competitors' = CompetitorsAfterSorted(competitors)
  /\ pc' = "kpis"
  /\ UNCHANGED <<radius_km, your_business,
                 market_density, positioning, kpis, summary, caller, services>>

(* kpis = generate_kpi_recommendations(your_business, competitors,
                                       market_density, positioning) *)
GenerateKpiRecommendations ==
  /\ pc = "kpis"
  /\ kpis' = generate_kpi_recommendations(your_business, competitors,
                                          market_density, positioning)
  /\ pc' = "summary"
  /\ UNCHANGED <<competitors, radius_km, your_business,
                 market_density, positioning, market_share, summary, caller, services>>

(* The summary is built and the AnalyticsResponse returned: the report is
   market_density, positioning, market_share, kpis and summary. *)
ReturnAnalyticsResponse ==
  /\ pc = "summary"
  /\ summary' = SummaryParts(competitors, radius_km, market_density,
                             market_share, positioning)
  /\ pc' = "done"
  /\ UNCHANGED <<competitors, radius_km, your_business,
                 market_density, positioning, market_share, kpis, caller, services>>

(* The report of the current call. *)
Report == <<market_density, positioning, market_share, kpis, summary>>

(* Another list, unsorted and of less revenue, with the mock caller: the
   arguments of a call made between two calls with equal arguments. *)
InterveningInputs ==
  {Input(<<Competitor(1, 30, 10, 50, FALSE, TRUE, 0),
           Competitor(2, 50, 900, 700, TRUE, FALSE, 9)>>, 7, MockBusiness)}

(* The first calls that are followed by further calls: the longest lists of
   ShareInputs, in every order of revenue, without and with a caller. *)
RepeatedInputs ==
  {input \in ShareInputs :
     /\ Len(input.competitors) = MaxCompetitors
     /\ input.your_business \in {None, [estimated_monthly_revenue |-> 100]}}

(* The caller keeps the report and calls generate_analytics once more, with
   the arguments of the first call or with other ones. *)
CallAgain ==
  /\ pc = "done"
  /\ calls < MaxCalls
  /\ LET first == IF first_call = Unassigned
                  THEN [input |-> call_input, report |-> Report, between |-> 0]
                  ELSE first_call
     IN  \E input \in {first.input} \cup InterveningInputs :
           /\ first.input \in RepeatedInputs
           /\ competitors' = input.competitors
           /\ radius_km' = input.radius_km
           /\ your_business' = input.your_business
           /\ call_input' = input
           /\ first_call' =
                IF input = first.input THEN first
                ELSE [first EXCEPT !.between = first.between + 1]
  /\ market_density' = Unassigned
  /\ positioning' = Unassigned
  /\ market_share' = Unassigned
  /\ kpis' = Unassigned
  /\ summary' = Unassigned
  /\ calls' = calls + 1
  /\ pc' = "market_density"
  /\ UNCHANGED services

Next ==
  \/ AnalyzeMarketDensity
  \/ AnalyzeCompetitivePositioning
  \/ EstimateMarketShare
  \/ GenerateKpiRecommendations
  \/ ReturnAnalyticsResponse
  \/ CallAgain

Spec == Init /\ [][Next]_vars

-----------------------------------------------------------------------------
(* generate_kpi_recommendations called on its own: the four arguments are
   independent, so the MarketDensityAnalysis need not be that of the list. *)

EngineScores == {0, 500, 700, 701, 850, 1000}

EngineInputs ==
  {[competitors |-> KpiCompetitors(k, Min(k, social), Min(k, service)),
    your_business |-> business, score |-> score] :
     k \in Lengths, social \in Lengths, service \in Lengths,
     business \in KpiProfiles, score \in EngineScores}

EngineInit ==
  /\ ServicesIdle
  /\ \E input \in EngineInputs :
       /\ competitors = input.competitors
       /\ your_business = input.your_business
       /\ market_density =
            [analyze_market_density(input.competitors, 50)
               EXCEPT !.market_saturation_score = input.score]
       /\ positioning =
            analyze_competitive_positioning(input.your_business,
                                            input.competitors)
  /\ radius_km = 50
  /\ market_share = Unassigned
  /\ kpis = Unassigned
  /\ summary = Unassigned
  /\ pc = "engine"
  /\ calls = 1
  /\ call_input = Input(competitors, radius_km, your_business)
  /\ first_call = Unassigned

(* generate_kpi_recommendations(your_business, competitors, market_density,
   positioning) *)
CallEngine ==
  /\ pc = "engine"
  /\ kpis' = generate_kpi_recommendations(your_business, competitors,
                                          market_density, positioning)
  /\ pc' = "engine_done"
  /\ UNCHANGED <<competitors, radius_km, your_business, market_density,
                 positioning, market_share, summary, caller, services>>

EngineNext == CallEngine

EngineSpec == EngineInit /\ [][EngineNext]_vars

-----------------------------------------------------------------------------
(* process_demo_request and the endpoint create_demo_request *)

(* generate_analytics is not running. *)
AnalyticsIdle ==
  /\ competitors = <<>>
  /\ radius_km = 50
  /\ your_business = None
  /\ market_density = Unassigned
  /\ positioning = Unassigned
  /\ market_share = Unassigned
  /\ kpis = Unassigned
  /\ summary = Unassigned
  /\ pc = "idle"
  /\ calls = 0
  /\ call_input = Unassigned
  /\ first_call = Unassigned

(* A DemoRequest row: its status, analysis_results and error_message. *)
DemoRequest(status, analysis_results, error_message) ==
  [status |-> status, analysis_results |-> analysis_results,
   error_message |-> error_message]

(* The row of the request being processed: the last one added. *)
current == Len(store)

(* db.commit() succeeds: the object's fields become the row, and the next
   statement runs. *)
Committed(object, next) ==
  /\ store' = [store EXCEPT ![current] = object]
  /\ trail' = [trail EXCEPT ![current] =
                 IF @[Len(@)] = object.status THEN @
                 ELSE Append(@, object.status)]
  /\ db_request' = object
  /\ demo_pc' = next
  /\ UNCHANGED failures

(* db.commit() raises: the row stays as it was, and the object keeps its
   fields or, expired by the rollback, shows the row's again. *)
CommitRaised(object, step) ==
  /\ UNCHANGED <<store, trail>>
  /\ db_request' \in {object, store[current]}
  /\ demo_pc' = "except"
  /\ failures' = failures \cup {step}

(* A statement of the try block raises with nothing committed. *)
Raised(step) ==
  /\ demo_pc' = "except"
  /\ failures' = failures \cup {step}
  /\ UNCHANGED <<store, trail, db_request>>

DemoInit == AnalyticsIdle /\ DemoIdle /\ SourceIdle /\ RegistryIdle

(* Step 1, outside the try block: the row is added with status pending; if
   the commit raises, the exception leaves process_demo_request. *)
CreateRecord ==
  /\ demo_pc = "create"
  /\ \/ /\ store' = Append(store, DemoRequest("pending", None, None))
        /\ trail' = Append(trail, <<"pending">>)
        /\ db_request' = DemoRequest("pending", None, None)
        /\ demo_pc' = "set_processing"
        /\ UNCHANGED failures
     \/ /\ demo_pc' = "raised"
        /\ failures' = failures \cup {"create"}
        /\ UNCHANGED <<store, trail, db_request>>
  /\ UNCHANGED <<response, email_attempts, email_sent, requests, analytics, source, registry>>

(* Step 2: status = PROCESSING; db.commit() *)
SetProcessing ==
  /\ demo_pc = "set_processing"
  /\ LET object == [db_request EXCEPT !.status = "processing"]
     IN  \/ Committed(object, "search")
         \/ CommitRaised(object, "set_processing")
  /\ UNCHANGED <<response, email_attempts, email_sent, requests, analytics, source, registry>>

(* Step 3: search_competitors(...) *)
SearchCompetitors ==
  /\ demo_pc = "search"
  /\ \/ /\ demo_pc' = "analytics"
        /\ UNCHANGED <<store, trail, db_request, failures>>
     \/ Raised("search")
  /\ UNCHANGED <<response, email_attempts, email_sent, requests, analytics, source, registry>>

(* generate_analytics(...) and the building of analysis_results *)
GenerateAnalytics ==
  /\ demo_pc = "analytics"
  /\ \/ /\ demo_pc' = "store_results"
        /\ UNCHANGED <<store, trail, db_request, failures>>
     \/ Raised("analytics")
  /\ UNCHANGED <<response, email_attempts, email_sent, requests, analytics, source, registry>>

(* db_request.analysis_results = analysis_results;
   db_request.status = COMPLETED *)
CompletedWithResults(object) ==
  [object EXCEPT !.analysis_results = [total_found |-> 10],
                 !.status = "completed"]

(* Step 4: the results and the status completed; db.commit() *)
StoreResults ==
  /\ demo_pc = "store_results"
  /\ LET object == CompletedWithResults(db_request)
     IN  \/ Committed(object, "email")
         \/ CommitRaised(object, "store_results")
  /\ UNCHANGED <<response, email_attempts, email_sent, requests, analytics, source, registry>>

StepAfterEmailFailure(sent) == IF sent THEN "respond" ELSE "except"

(* if not email_sent: only a warning is logged *)
StepAfterEmail(sent) == "respond"

(* Step 5: send_analysis_email catches every exception of its own and
   returns True, False or nothing. *)
SendEmail ==
  /\ demo_pc = "email"
  /\ email_attempts' = email_attempts + 1
  /\ \E sent \in BOOLEAN :
       /\ email_sent' = sent
       /\ demo_pc' = StepAfterEmail(sent)
  /\ UNCHANGED <<store, trail, db_request, response, failures, requests,
                 analytics, source, registry>>

(* Step 6: the DemoRequestResponse is built from the object, whose fields
   are read again from the table after the commit. *)
ReturnSuccess ==
  /\ demo_pc = "respond"
  /\ \/ /\ response' = [status |-> db_request.status, message |-> "success"]
        /\ demo_pc' = "returned"
        /\ UNCHANGED <<store, trail, db_request, failures>>
     \/ /\ Raised("respond")
        /\ UNCHANGED response
  /\ UNCHANGED <<email_attempts, email_sent, requests, analytics, source, registry>>

FailedWithoutMessage(object) == [object EXCEPT !.status = "failed"]

(* db_request.status = FAILED; db_request.error_message = str(e) *)
FailedWithMessage(object) ==
  [object EXCEPT !.status = "failed",
                 !.error_message = [text |-> "exception text"]]

(* except Exception: the status failed and the message; db.commit(), which
   is not guarded. *)
HandleException ==
  /\ demo_pc = "except"
  /\ LET object == FailedWithMessage(db_request)
     IN  \/ Committed(object, "respond_error")
         \/ /\ demo_pc' = "raised"
            /\ failures' = failures \cup {"except"}
            /\ UNCHANGED <<store, trail, db_request>>
  /\ UNCHANGED <<response, email_attempts, email_sent, requests, analytics, source, registry>>

(* The DemoRequestResponse of the handler, with the fixed message. *)
ReturnError ==
  /\ demo_pc = "respond_error"
  /\ \/ /\ response' = [status |-> db_request.status,
                         message |-> "generic error"]
        /\ demo_pc' = "returned"
        /\ UNCHANGED failures
     \/ /\ demo_pc' = "raised"
        /\ failures' = failures \cup {"respond_error"}
        /\ UNCHANGED response
  /\ UNCHANGED <<store, trail, db_request, email_attempts, email_sent,
                 requests, analytics, source, registry>>

(* create_demo_request: the response is passed on, and an exception becomes
   an HTTP 500 whose detail holds str(e). *)
CreateDemoRequest ==
  /\ demo_pc \in {"returned", "raised"}
  /\ response' = IF demo_pc = "raised"
                 THEN [status |-> "http 500", message |-> "exception text"]
                 ELSE response
  /\ demo_pc' = "answered"
  /\ UNCHANGED <<store, trail, db_request, email_attempts, email_sent,
                 failures, requests, analytics, source, registry>>

(* The next demo request arrives, with a session of its own. *)
NextDemoRequest ==
  /\ demo_pc = "answered"
  /\ requests < MaxRequests
  /\ requests' = requests + 1
  /\ db_request' = None
  /\ response' = None
  /\ email_attempts' = 0
  /\ email_sent' = FALSE
  /\ failures' = {}
  /\ demo_pc' = "create"
  /\ UNCHANGED <<store, trail, analytics, source, registry>>

DemoNext ==
  \/ CreateRecord
  \/ SetProcessing
  \/ SearchCompetitors
  \/ GenerateAnalytics
  \/ StoreResults
  \/ SendEmail
  \/ ReturnSuccess
  \/ HandleException
  \/ ReturnError
  \/ CreateDemoRequest
  \/ NextDemoRequest

DemoSpec == DemoInit /\ [][DemoNext]_vars

-----------------------------------------------------------------------------
(* The competitor source: search_competitors over the mock data *)

(* Strings of the competitor source are sequences of characters, so that
   strip, lower, replace, startswith and `in` are computed on them; accented
   letters are written without the accent. *)
UpperCase ==
  <<"A", "B", "C", "D", "E", "F", "G", "H", "I", "J", "K", "L", "M",
    "N", "O", "P", "Q", "R", "S", "T", "U", "V", "W", "X", "Y", "Z">>

LowerCase ==
  <<"a", "b", "c", "d", "e", "f", "g", "h", "i", "j", "k", "l", "m",
    "n", "o", "p", "q", "r", "s", "t", "u", "v", "w", "x", "y", "z">>

LowerChar(c) ==
  IF \E i \in 1..Len(UpperCase) : UpperCase[i] = c
  THEN LowerCase[CHOOSE i \in 1..Len(UpperCase) : UpperCase[i] = c]
  ELSE c

(* s.lower() *)
Lower(s) == [i \in 1..Len(s) |-> LowerChar(s[i])]

(* s.strip() *)
Strip(s) ==
  LET solid == {i \in 1..Len(s) : s[i] # " "}
  IN  IF solid = {} THEN <<>>
      ELSE SubSeq(s, CHOOSE i \in solid : \A j \in solid : i <= j,
                     CHOOSE i \in solid : \A j \in solid : i >= j)

(* part in s *)
Contains(part, s) ==
  \E i \in 0..(Len(s) - Len(part)) : SubSeq(s, i + 1, i + Len(part)) = part

(* s.replace(old, "") for a character old *)
Replace(s, old) == SelectSeq(s, LAMBDA c : c # old)

(* s.startswith(prefix) *)
StartsWith(s, prefix) ==
  /\ Len(prefix) <= Len(s)
  /\ SubSeq(s, 1, Len(prefix)) = prefix

(* s[:n] for n >= 0 *)
Slice(s, n) == SubSeq(s, 1, Min(n, Len(s)))

DecimalDigits == <<"0", "1", "2", "3", "4", "5", "6", "7", "8", "9">>

(* str(n) for an int n >= 0 *)
RECURSIVE Str(_)
Str(n) ==
  IF n < 10 THEN <<DecimalDigits[n + 1]>>
  ELSE Append(Str(n \div 10), DecimalDigits[(n % 10) + 1])

(* An Optional[str] that is given: the text of a string. *)
Text(s) == [text |-> s]

(* CITIES, in the order of the dict, with lat and lng in hundredths of a
   degree. *)
CITIES ==
  <<
    [name |-> <<"S", "a", "o", " ", "P", "a", "u", "l", "o">>,
     lat |-> -2355, lng |-> -4663],
    [name |-> <<"R", "i", "o", " ", "d", "e", " ", "J", "a", "n", "e", "i", "r", "o">>,
     lat |-> -2291, lng |-> -4317],
    [name |-> <<"B", "e", "l", "o", " ", "H", "o", "r", "i", "z", "o", "n", "t", "e">>,
     lat |-> -1992, lng |-> -4393],
    [name |-> <<"B", "r", "a", "s", "i", "l", "i", "a">>,
     lat |-> -1579, lng |-> -4788],
    [name |-> <<"C", "u", "r", "i", "t", "i", "b", "a">>,
     lat |-> -2543, lng |-> -4927],
    [name |-> <<"P", "o", "r", "t", "o", " ", "A", "l", "e", "g", "r", "e">>,
     lat |-> -3003, lng |-> -5122],
    [name |-> <<"S", "a", "l", "v", "a", "d", "o", "r">>,
     lat |-> -1297, lng |-> -3850],
    [name |-> <<"F", "o", "r", "t", "a", "l", "e", "z", "a">>,
     lat |-> -372, lng |-> -3854],
    [name |-> <<"R", "e", "c", "i", "f", "e">>,
     lat |-> -805, lng |-> -3488],
    [name |-> <<"M", "a", "n", "a", "u", "s">>,
     lat |-> -312, lng |-> -6002]
  >>

(* BUSINESS_CATEGORIES.keys(), in the order of the dict. *)
BUSINESS_CATEGORIES ==
  <<
    <<"P", "a", "d", "a", "r", "i", "a">>,
    <<"R", "e", "s", "t", "a", "u", "r", "a", "n", "t", "e">>,
    <<"F", "a", "r", "m", "a", "c", "i", "a">>,
    <<"S", "u", "p", "e", "r", "m", "e", "r", "c", "a", "d", "o">>,
    <<"C", "a", "f", "e", "t", "e", "r", "i", "a">>,
    <<"A", "c", "a", "d", "e", "m", "i", "a">>,
    <<"P", "e", "t", " ", "S", "h", "o", "p">>,
    <<"L", "a", "n", "c", "h", "o", "n", "e", "t", "e">>
  >>

CityKeys == [i \in 1..Len(CITIES) |-> CITIES[i].name]

(* CITIES[city] for a key of the dict *)
CityData(city) ==
  CITIES[CHOOSE i \in 1..Len(CITIES) : CITIES[i].name = city]

DefaultCity == CityKeys[1]

DefaultCategory == BUSINESS_CATEGORIES[1]

(* The name the lookup uses: the stripped name when it is a key, else the
   first key that contains it or is contained in it, whatever the case,
   else the default. *)
NormalizedName(raw, keys, default) ==
  LET stripped == Strip(raw)
      close == {i \in 1..Len(keys) :
                  \/ Contains(Lower(keys[i]), Lower(stripped))
                  \/ Contains(Lower(stripped), Lower(keys[i]))}
  IN  IF \E i \in 1..Len(keys) : keys[i] = stripped THEN stripped
      ELSE IF close # {}
           THEN keys[CHOOSE i \in close : \A j \in close : i <= j]
           ELSE default

(* cache_key = f"{city}_{category}_{count}" *)
cache_key(city, category, count) ==
  city \o <<"_">> \o category \o <<"_">> \o Str(count)

(* The addresses and the offsets from the city centre, in hundredths of a
   degree of latitude, that the generator draws from. *)
MockPlaces ==
  <<
    [offset |-> 0, neighborhood |-> <<"C", "e", "n", "t", "r", "o">>,
     postal_code |-> <<"0", "1", "3", "1", "0", "-", "1", "0", "0">>],
    [offset |-> 1, neighborhood |-> <<"V", "i", "l", "a", " ", "N", "o", "v", "a">>,
     postal_code |-> <<"0", "1", "3", "1", "0", "-", "2", "0", "0">>],
    [offset |-> 3, neighborhood |-> <<"C", "e", "n", "t", "r", "o">>,
     postal_code |-> <<"0", "4", "5", "3", "8", "-", "1", "3", "2">>],
    [offset |-> -4, neighborhood |-> <<"Z", "o", "n", "a", " ", "S", "u", "l">>,
     postal_code |-> <<"0", "1", "3", "1", "0", "-", "3", "0", "0">>]
  >>

(* The states of the random generator a call of generate_mock_competitors
   can start from. *)
RandomStates == 0..63

(* The place the generator draws for entry i in the given random state. *)
DrawnPlace(state, i) ==
  MockPlaces[((state \div (4 ^ ((i - 1) % 3))) % 4) + 1]

(* generate_mock_competitors raises ValueError for a city or category that
   is not a key. *)
GeneratorRaises(city, category) ==
  \/ ~ \E i \in 1..Len(CityKeys) : CityKeys[i] = city
  \/ ~ \E i \in 1..Len(BUSINESS_CATEGORIES) : BUSINESS_CATEGORIES[i] = category

(* generate_mock_competitors(city, category, count): count entries around
   the city centre, on its meridian, in the order of their random ratings. *)
generate_mock_competitors(city, category, count, state) ==
  [i \in 1..count |->
     LET place == DrawnPlace(state, i)
     IN  [id |-> i, city |-> city, category |-> category,
          latitude |-> CityData(city).lat + place.offset,
          longitude |-> CityData(city).lng,
          neighborhood |-> place.neighborhood,
          postal_code |-> place.postal_code]]

(* The reference point: the coordinates when given, else the city centre. *)
Reference(coordinates, city) ==
  IF coordinates # None THEN coordinates
  ELSE [latitude |-> CityData(city).lat, longitude |-> CityData(city).lng]

(* Every entry passes the radius test. *)
NeverOutsideRadius(distance, radius) == FALSE

(* distance > radius_km, the distance in metres and the radius in tenths of
   a kilometre *)
OutsideRadius(distance, radius) == distance > radius * 100

(* if neighborhood: neighborhood.lower() not in
   data["address"]["neighborhood"].lower() *)
FailsNeighborhood(neighborhood, data) ==
  /\ neighborhood # None
  /\ neighborhood.text # <<>>
  /\ ~ Contains(Lower(neighborhood.text), Lower(data.neighborhood))

(* if cep: the postal code without "-" and "." does not start with the
   first five characters of the CEP without them *)
FailsCep(cep, data) ==
  /\ cep # None
  /\ cep.text # <<>>
  /\ LET cep_clean == Replace(Replace(cep.text, "-"), ".")
         data_cep_clean == Replace(Replace(data.postal_code, "-"), ".")
     IN  ~ StartsWith(data_cep_clean, Slice(cep_clean, 5))

(* round(distance, 2), in hundredths of a kilometre *)
DistanceKm(distance) == RoundHalfEven(distance, 10)

(* The Competitor built from an entry of the mock data. *)
SourceCompetitor(data, distance) ==
  [id |-> data.id, city |-> data.city, category |-> data.category,
   latitude |-> data.latitude, longitude |-> data.longitude,
   neighborhood |-> data.neighborhood, postal_code |-> data.postal_code,
   distance_km |-> DistanceKm(distance)]

(* if len(competitors) >= max_results: break *)
Enough(competitors_found, max_results) ==
  Len(competitors_found) >= max_results

(* for data in mock_data: the entries that pass the three tests, until
   there are enough of them. *)
RECURSIVE Collected(_, _, _, _)
Collected(mock_data, reference, q, competitors_found) ==
  IF mock_data = <<>> THEN competitors_found
  ELSE LET data == Head(mock_data)
           distance == calculate_distance(reference.latitude,
                                          reference.longitude,
                                          data.latitude, data.longitude)
       IN  IF \/ OutsideRadius(distance, q.radius_km)
              \/ FailsNeighborhood(q.neighborhood, data)
              \/ FailsCep(q.cep, data)
           THEN Collected(Tail(mock_data), reference, q, competitors_found)
           ELSE LET longer == Append(competitors_found,
                                     SourceCompetitor(data, distance))
                IN  IF Enough(longer, q.max_results) THEN longer
                    ELSE Collected(Tail(mock_data), reference, q, longer)

(* key=lambda x: x.distance_km if x.distance_km else 999, in hundredths of
   a kilometre *)
DistanceKey(c) == IF c.distance_km # 0 THEN c.distance_km ELSE 99900

RECURSIVE InsertByDistanceKey(_, _)
InsertByDistanceKey(s, c) ==
  IF s = <<>> THEN <<c>>
  ELSE IF DistanceKey(Head(s)) <= DistanceKey(c)
       THEN <<Head(s)>> \o InsertByDistanceKey(Tail(s), c)
       ELSE <<c>> \o s

(* competitors.sort(key=...): ascending by the key, equal keys in the order
   they had *)
RECURSIVE SortedByDistanceKey(_)
SortedByDistanceKey(s) ==
  IF s = <<>> THEN <<>>
  ELSE InsertByDistanceKey(SortedByDistanceKey(SubSeq(s, 1, Len(s) - 1)),
                           s[Len(s)])

(* The part of _search_competitors_mock after the mock data is there. *)
SearchResult(mock_data, q, city_normalized) ==
  LET reference == Reference(q.coordinates, city_normalized)
      competitors_found == Collected(mock_data, reference, q, <<>>)
  IN  Slice(SortedByDistanceKey(competitors_found), q.max_results)

(* A Coordinates object the given hundredths of a degree north of the
   centre of the city the name resolves to. *)
CoordinatesNear(city, offset) ==
  LET centre == CityData(NormalizedName(city, CityKeys, DefaultCity))
  IN  [latitude |-> centre.lat + offset, longitude |-> centre.lng]

(* The arguments of a search: a key of CITIES, a name with blanks around
   it, a part of a key and an unknown name; a part of a category and an
   unknown one; no coordinates or coordinates near the centre; no filter, an
   empty one and filters in either spelling. *)
SearchCityNames ==
  {<<"S", "a", "o", " ", "P", "a", "u", "l", "o">>, <<" ", "R", "e", "c", "i", "f", "e", " ">>, <<"r", "i", "o">>, <<"P", "a", "r", "i", "s">>}

SearchCategoryNames == {<<"p", "e", "t">>, <<"S", "u", "s", "h", "i">>}

Queries ==
  {[city |-> city, category |-> category, coordinates |-> coordinates,
    radius_km |-> radius, max_results |-> max_results,
    neighborhood |-> neighborhood, cep |-> cep] :
     city \in SearchCityNames, category \in SearchCategoryNames,
     coordinates \in {None} \cup {CoordinatesNear(c, 1) : c \in SearchCityNames},
     radius \in {10, 50}, max_results \in 1..MaxResults,
     neighborhood \in {None, Text(<<>>), Text(<<"c", "e", "n", "t", "r", "o">>)},
     cep \in {None, Text(<<"0", "1", "3", "1", "0", "-", "1", "0", "0">>), Text(<<"0", "4", "5", "3", "8", "1", "3", "2">>)}}

(* The searches whose coordinates, when given, are near the city searched. *)
SearchQueries ==
  {q \in Queries :
     q.coordinates \in {None, CoordinatesNear(q.city, 1)}}

SearchInit ==
  /\ AnalyticsIdle
  /\ DemoIdle
  /\ RegistryIdle
  /\ MOCK_DATA_CACHE = EmptyDict
  /\ log = <<>>
  /\ query \in SearchQueries
  /\ found = Unassigned
  /\ source_pc = "search"

(* The cache keeps the entry of the key and stores the new data over it. *)
CacheAfterGetAlways(cache, key, data) ==
  (key :> data) @@ cache

(* The cache with the entry of the key, generated when it is missing. *)
CacheAfterGet(cache, key, data) ==
  IF key \in DOMAIN cache THEN cache ELSE (key :> data) @@ cache

(* get_mock_competitors(city, category, count) in the given random state:
   the cache afterwards and the entry of the call in the log. *)
GetMockCompetitors(city, category, count, state) ==
  LET key == cache_key(city, category, count)
      ran == key \notin DOMAIN MOCK_DATA_CACHE
      cache == CacheAfterGet(MOCK_DATA_CACHE, key,
                 generate_mock_competitors(city, category, count, state))
  IN  /\ MOCK_DATA_CACHE' = cache
      /\ log' = Append(log, [city |-> city, category |-> category,
                             count |-> count, ran |-> ran, raised |-> FALSE,
                             data |-> cache[key]])

(* get_mock_competitors raises: the key is missing and the generator
   raises. *)
GetRaises(city, category, count) ==
  /\ cache_key(city, category, count) \notin DOMAIN MOCK_DATA_CACHE
  /\ GeneratorRaises(city, category)

(* The call that raises stores nothing. *)
GetRaised(city, category, count) ==
  /\ log' = Append(log, [city |-> city, category |-> category,
                         count |-> count, ran |-> TRUE, raised |-> TRUE,
                         data |-> <<>>])
  /\ UNCHANGED MOCK_DATA_CACHE

(* _search_competitors_mock *)
SearchCompetitorsMock ==
  /\ source_pc = "search"
  /\ LET city_normalized == NormalizedName(query.city, CityKeys, DefaultCity)
         category_normalized ==
           NormalizedName(query.category, BUSINESS_CATEGORIES, DefaultCategory)
         count == query.max_results * 3
     IN  IF GetRaises(city_normalized, category_normalized, count)
         THEN /\ GetRaised(city_normalized, category_normalized, count)
              /\ source_pc' = "raised"
              /\ UNCHANGED found
         ELSE \E state \in RandomStates :
                /\ GetMockCompetitors(city_normalized, category_normalized,
                                      count, state)
                /\ found' = SearchResult(log'[Len(log')].data, query,
                                         city_normalized)
                /\ source_pc' = "returned"
  /\ UNCHANGED <<query, analytics, demo, registry>>

SearchNext == SearchCompetitorsMock

SearchSpec == SearchInit /\ [][SearchNext]_vars

(* The arguments of the calls of get_mock_competitors: two keys of CITIES
   and an unknown city, a category and two counts. *)
GetCities == {<<"S", "a", "o", " ", "P", "a", "u", "l", "o">>, <<"R", "e", "c", "i", "f", "e">>, <<"P", "a", "r", "i", "s">>}

GetCategories == {<<"P", "a", "d", "a", "r", "i", "a">>}

GetCounts == {1, 2}

(* The states of the random generator the calls start from. *)
GetRandomStates == {0, 5}

CacheInit ==
  /\ AnalyticsIdle
  /\ DemoIdle
  /\ RegistryIdle
  /\ MOCK_DATA_CACHE = EmptyDict
  /\ log = <<>>
  /\ query = None
  /\ found = Unassigned
  /\ source_pc = "get"

(* A call of get_mock_competitors *)
CallGetMockCompetitors ==
  /\ source_pc = "get"
  /\ Len(log) < MaxGets
  /\ \E city \in GetCities, category \in GetCategories, count \in GetCounts :
       /\ query' = [city |-> city, category |-> category, count |-> count]
       /\ IF GetRaises(city, category, count)
          THEN /\ GetRaised(city, category, count)
               /\ found' = Unassigned
          ELSE \E state \in GetRandomStates :
                 /\ GetMockCompetitors(city, category, count, state)
                 /\ found' = log'[Len(log')].data
  /\ UNCHANGED <<source_pc, analytics, demo, registry>>

CacheNext == CallGetMockCompetitors

CacheSpec == CacheInit /\ [][CacheNext]_vars

-----------------------------------------------------------------------------
(* The CNPJ service: validate_cnpj, format_cnpj and lookup_cnpj *)

(* A character of a CNPJ string is a string: an ASCII character is itself,
   and "U+FF10" is the fullwidth digit zero, a decimal digit of Unicode
   outside ASCII. *)
UnicodeDigits == {"U+FF10"}

(* \d of a str pattern: any decimal digit of Unicode *)
IsDigit(c) ==
  \/ \E i \in 1..Len(DecimalDigits) : DecimalDigits[i] = c
  \/ c \in UnicodeDigits

(* int(c) for a decimal digit c *)
DigitValue(c) ==
  IF c = "U+FF10" THEN 0
  ELSE (CHOOSE i \in 1..Len(DecimalDigits) : DecimalDigits[i] = c) - 1

(* re.sub(r'[^\d]', '', cnpj) *)
CnpjClean(cnpj) == SelectSeq(cnpj, IsDigit)

(* len(set(s)) == 1 *)
OneCharacter(s) == Cardinality({s[i] : i \in 1..Len(s)}) = 1

weights1 == <<5, 4, 3, 2, 9, 8, 7, 6, 5, 4, 3, 2>>

weights2 == <<6, 5, 4, 3, 2, 9, 8, 7, 6, 5, 4, 3, 2>>

(* calculate_digit(cnpj_partial, weights) *)
calculate_digit(cnpj_partial, weights) ==
  LET paired == Min(Len(cnpj_partial), Len(weights))
      total == SumSeq([i \in 1..paired |->
                         DigitValue(cnpj_partial[i]) * weights[i]])
      remainder == total % 11
  IN  IF remainder < 2 THEN 0 ELSE 11 - remainder

validate_cnpj(cnpj) ==
  LET cnpj_clean == CnpjClean(cnpj)
  IN  IF Len(cnpj_clean) # 14 THEN FALSE
      ELSE IF OneCharacter(cnpj_clean) THEN FALSE
      ELSE IF DigitValue(cnpj_clean[13])
                # calculate_digit(Slice(cnpj_clean, 12), weights1)
           THEN FALSE
      ELSE IF DigitValue(cnpj_clean[14])
                # calculate_digit(Slice(cnpj_clean, 13), weights2)
           THEN FALSE
      ELSE TRUE

(* format_cnpj raises ValueError("CNPJ must have 14 digits"). *)
FormatRaises(cnpj) == Len(CnpjClean(cnpj)) # 14

(* format_cnpj(cnpj) when it does not raise: XX.XXX.XXX/XXXX-XX *)
format_cnpj(cnpj) ==
  LET cnpj_clean == CnpjClean(cnpj)
  IN  SubSeq(cnpj_clean, 1, 2) \o <<".">> \o SubSeq(cnpj_clean, 3, 5)
        \o <<".">> \o SubSeq(cnpj_clean, 6, 8) \o <<"/">>
        \o SubSeq(cnpj_clean, 9, 12) \o <<"-">> \o SubSeq(cnpj_clean, 13, 14)

(* The value of a call of format_cnpj: the text or the exception. *)
Formatted(cnpj) ==
  IF FormatRaises(cnpj) THEN [raises |-> "ValueError"]
  ELSE Text(format_cnpj(cnpj))

(* lookup_cnpj(cnpj): None, or the mock record with the formatted CNPJ *)
lookup_cnpj(cnpj) ==
  IF ~ validate_cnpj(cnpj) THEN None
  ELSE [cnpj |-> Formatted(cnpj), status |-> "ATIVA"]

(* Digit strings: valid check digits, a wrong second and a wrong first
   check digit, fourteen equal digits in ASCII, with one fullwidth zero and
   all fullwidth, thirteen and fifteen digits, none, and seven. *)
CnpjDigits ==
  {
    <<"1", "1", "2", "2", "2", "3", "3", "3", "0", "0", "0", "1", "8", "1">>,
    <<"1", "1", "2", "2", "2", "3", "3", "3", "0", "0", "0", "1", "8", "2">>,
    <<"1", "1", "2", "2", "2", "3", "3", "3", "0", "0", "0", "1", "9", "1">>,
    <<"0", "0", "0", "0", "0", "0", "0", "0", "0", "0", "0", "0", "0", "0">>,
    <<"1", "1", "1", "1", "1", "1", "1", "1", "1", "1", "1", "1", "1", "1">>,
    <<"0", "0", "0", "0", "0", "0", "0", "0", "0", "0", "0", "0", "0",
      "U+FF10">>,
    <<"U+FF10", "U+FF10", "U+FF10", "U+FF10", "U+FF10", "U+FF10", "U+FF10",
      "U+FF10", "U+FF10", "U+FF10", "U+FF10", "U+FF10", "U+FF10", "U+FF10">>,
    <<"1", "1", "2", "2", "2", "3", "3", "3", "0", "0", "0", "1", "8">>,
    <<"1", "1", "2", "2", "2", "3", "3", "3", "0", "0", "0", "1", "8", "1",
      "1">>,
    <<>>,
    <<"4", "7", "2", "1", "1", "0", "2">>
  }

(* The digits with a separator after every `step` of them. *)
Separated(digits, step, separator) ==
  IF digits = <<>> THEN <<>>
  ELSE LET pieces == [i \in 1..Len(digits) |->
                        IF i % step = 0 THEN <<digits[i], separator>>
                        ELSE <<digits[i]>>]
           Join[i \in 0..Len(digits)] ==
             IF i = 0 THEN <<>> ELSE Join[i - 1] \o pieces[i]
       IN  Join[Len(digits)]

(* The inputs of the CNPJ service: each digit string as it is, in the
   standard format when it has fourteen digits, and with blanks or letters
   between the digits. *)
CnpjInputs ==
  CnpjDigits
  \cup {format_cnpj(d) : d \in {c \in CnpjDigits : Len(c) = 14}}
  \cup {Separated(d, step, separator) :
          d \in CnpjDigits, step \in 2..MaxStep, separator \in {" ", "x"}}

CnpjInit ==
  /\ AnalyticsIdle
  /\ DemoIdle
  /\ SourceIdle
  /\ submitted \in CnpjInputs
  /\ checked = EmptyDict

(* The results with the one of one more call, kept under its name. *)
CheckedWith(name, value) == (name :> value) @@ checked

(* validate_cnpj(cnpj) *)
ValidateCnpj ==
  /\ "valid" \notin DOMAIN checked
  /\ checked' = CheckedWith("valid", validate_cnpj(submitted))
  /\ UNCHANGED <<submitted, analytics, demo, source>>

(* format_cnpj(cnpj) *)
FormatCnpj ==
  /\ "formatted" \notin DOMAIN checked
  /\ checked' = CheckedWith("formatted", Formatted(submitted))
  /\ UNCHANGED <<submitted, analytics, demo, source>>

(* lookup_cnpj(cnpj) *)
LookupCnpj ==
  /\ "record" \notin DOMAIN checked
  /\ checked' = CheckedWith("record", lookup_cnpj(submitted))
  /\ UNCHANGED <<submitted, analytics, demo, source>>

(* validate_cnpj(format_cnpj(cnpj)) *)
ValidateFormatted ==
  /\ "formatted" \in DOMAIN checked
  /\ "text" \in DOMAIN checked.formatted
  /\ "valid_formatted" \notin DOMAIN checked
  /\ checked' = CheckedWith("valid_formatted",
                            validate_cnpj(checked.formatted.text))
  /\ UNCHANGED <<submitted, analytics, demo, source>>

(* format_cnpj(format_cnpj(cnpj)) *)
FormatFormatted ==
  /\ "formatted" \in DOMAIN checked
  /\ "text" \in DOMAIN checked.formatted
  /\ "formatted_twice" \notin DOMAIN checked
  /\ checked' = CheckedWith("formatted_twice",
                            Formatted(checked.formatted.text))
  /\ UNCHANGED <<submitted, analytics, demo, source>>

CnpjNext ==
  \/ ValidateCnpj
  \/ FormatCnpj
  \/ LookupCnpj
  \/ ValidateFormatted
  \/ FormatFormatted

CnpjSpec == CnpjInit /\ [][CnpjNext]_vars

-----------------------------------------------------------------------------
(* Properties of analyze_market_density *)

Assigned(v) == v # Unassigned

(* The unrounded competitors_per_km2 of the current inputs. *)
Density == CompetitorsPerKm2(Len(competitors), radius_km)

(* C1: for every competitor list and every radius_km >= 0 the reported
   market_saturation_score lies in [0, 100]. *)
C1_ScoreInRange ==
  Assigned(market_density) =>
    /\ market_density.market_saturation_score >= 0
    /\ market_density.market_saturation_score <= 1000

(* A density above 7 per km2, where 80 + (d - 3) * 5 exceeds 100. *)
C1_Witness ==
  /\ Assigned(market_density)
  /\ Density > 7000000
  /\ market_density.market_saturation_score = 1000

(* C2: the score is non-decreasing in density: whatever other list length
   and radius the analysis is given, a density at least the current one
   gets a score at least the current one, and a density at most the
   current one a score at most the current one. *)
C2_ScoreMonotone ==
  Assigned(market_density) =>
    \A k \in Lengths, r \in 0..MaxRadius :
      LET other == CompetitorsPerKm2(k, r)
      IN  /\ other >= Density =>
               ReportedScore(other) >= market_density.market_saturation_score
          /\ other <= Density =>
               ReportedScore(other) <= market_density.market_saturation_score

(* A Medium density scoring above 45 while other inputs give a High density
   within 0.3 of the boundary 1.5. *)
C2_Witness ==
  /\ Assigned(market_density)
  /\ market_density.density_level = "Medium"
  /\ market_density.market_saturation_score > 450
  /\ \E k \in Lengths, r \in 0..MaxRadius :
       /\ CompetitorsPerKm2(k, r) >= 1500000
       /\ CompetitorsPerKm2(k, r) < 1800000

(* C3: the score is continuous at the tier boundaries 0.5, 1.5 and 3.0: as
   the density d approaches a boundary B from below, the score approaches
   the score at B.  Each piece is linear with slope at most 40 per unit of
   density, so for d within 0.05 below B continuity means that the score at
   B exceeds the score at d by no more than 40 * (B - d). *)
C3_ContinuousAtBoundaries ==
  Assigned(market_density) =>
    \A B \in {500000, 1500000, 3000000} :
      (Density < B /\ B - Density <= 50000) =>
        SaturationScore(B) - SaturationScore(Density) <= 40 * (B - Density)

(* C4, as claimed: density_level and the reported competitors_per_km2 agree
   with the tier table, and the score lies in the band of its tier. *)
C4_ReportedFieldsAgree ==
  Assigned(market_density) =>
    LET level == market_density.density_level
        reported == market_density.competitors_per_km2
        score == market_density.market_saturation_score
    IN  /\ level = "Low" <=> reported < 50
        /\ level = "Medium" <=> (50 <= reported /\ reported < 150)
        /\ level = "High" <=> (150 <= reported /\ reported < 300)
        /\ level = "Very High" <=> reported >= 300
        /\ level = "Low" => (0 <= score /\ score <= 250)
        /\ level = "Medium" => (250 <= score /\ score <= 500)
        /\ level = "High" => (500 <= score /\ score <= 800)
        /\ level = "Very High" => (800 <= score /\ score <= 1000)

(* C4, amended: density_level agrees with the tier table on the unrounded
   density; the reported competitors_per_km2, rounded to two decimals, lies
   in the closed band of its tier and may equal its upper boundary; and the
   score lies in the band of its tier. *)
C4_LevelFollowsUnroundedDensity ==
  Assigned(market_density) =>
    LET level == market_density.density_level
        reported == market_density.competitors_per_km2
        score == market_density.market_saturation_score
    IN  /\ level = "Low" <=> Density < 500000
        /\ level = "Medium" <=> (500000 <= Density /\ Density < 1500000)
        /\ level = "High" <=> (1500000 <= Density /\ Density < 3000000)
        /\ level = "Very High" <=> Density >= 3000000
        /\ level = "Low" => reported <= 50
        /\ level = "Medium" => (50 <= reported /\ reported <= 150)
        /\ level = "High" => (150 <= reported /\ reported <= 300)
        /\ level = "Very High" => reported >= 300
        /\ level = "Low" => (0 <= score /\ score <= 250)
        /\ level = "Medium" => (250 <= score /\ score <= 500)
        /\ level = "High" => (500 <= score /\ score <= 800)
        /\ level = "Very High" => (800 <= score /\ score <= 1000)

(* A Low result whose reported density is 0.5. *)
C4_Witness ==
  /\ Assigned(market_density)
  /\ market_density.density_level = "Low"
  /\ market_density.competitors_per_km2 = 50

(* C5: with 0 or 1 competitors avg_distance_between_competitors is
   2 * radius_km; with 0 competitors and radius 5.0 the report has density
   0, tier Low, score 0, average distance 10.0 and no market_share_estimate. *)
C5_FallbackDistance ==
  /\ (Assigned(market_density) /\ Len(competitors) <= 1) =>
       market_density.avg_distance_between_competitors = 20 * radius_km
  /\ (pc = "done" /\ Len(competitors) = 0 /\ radius_km = 50) =>
       /\ market_density.competitors_per_km2 = 0
       /\ market_density.density_level = "Low"
       /\ market_density.market_saturation_score = 0
       /\ market_density.avg_distance_between_competitors = 1000
       /\ market_share = None

C5_Witness ==
  /\ pc = "done"
  /\ Len(competitors) = 0
  /\ radius_km = 50
  /\ market_density.avg_distance_between_competitors = 1000

-----------------------------------------------------------------------------
(* Properties of the report, positioning and market share *)

(* C6: in the returned report competitive_positioning is absent iff no
   caller profile was supplied (None, or a dictionary with no entries),
   market_share_estimate is absent iff the competitor list is empty, and
   market_density, kpi_recommendations and summary are produced either way. *)
C6_OptionalSections ==
  pc = "done" =>
    /\ positioning = None <=> ~Truthy(your_business)
    /\ market_share = None <=> competitors = <<>>
    /\ Assigned(positioning) /\ Assigned(market_share)
    /\ Assigned(market_density) /\ market_density # None
    /\ market_density.total_competitors = Len(competitors)
    /\ DOMAIN kpis = 1..Len(kpis)
    /\ DOMAIN summary = 1..Len(summary) /\ Len(summary) >= 2
    /\ summary[1].part = "competitors" /\ summary[2].part = "density"

(* A report with neither optional section, for an empty dictionary. *)
C6_Witness ==
  /\ pc = "done"
  /\ your_business = EmptyDict
  /\ positioning = None
  /\ market_share = None
  /\ Len(summary) = 2

(* The rating analyze_competitive_positioning ranks the caller by. *)
CallerRating == Get(your_business, "rating", 40)

HasPositioning == Assigned(positioning) /\ positioning # None

(* C7: your_ranking is 1 + the number of competitor ratings strictly above
   the caller's rating; a caller whose rating exceeds every competitor's has
   rank 1 and percentile 100 * (total - 1) / total, reported to one
   decimal. *)
C7_RankCountsStrictlyGreater ==
  HasPositioning =>
    LET above == {i \in 1..Len(competitors) :
                    competitors[i].rating > CallerRating}
        total == Len(competitors) + 1
    IN  /\ positioning.your_ranking = 1 + Cardinality(above)
        /\ (\A i \in 1..Len(competitors) :
              CallerRating > competitors[i].rating) =>
             /\ positioning.your_ranking = 1
             /\ 2 * (total * positioning.percentile - 1000 * (total - 1))
                  <= total
             /\ 2 * (1000 * (total - 1) - total * positioning.percentile)
                  <= total

(* A caller tied with one competitor and below another. *)
C7_Witness ==
  /\ HasPositioning
  /\ \E i, j \in 1..Len(competitors) :
       /\ competitors[i].rating = CallerRating
       /\ competitors[j].rating > CallerRating
  /\ positioning.your_ranking = 2

(* C8: 1 <= your_ranking <= total_competitors and 0 <= percentile <= 100,
   where total_competitors is the number of competitors plus the caller. *)
C8_RankAndPercentileInRange ==
  HasPositioning =>
    /\ positioning.total_competitors = Len(competitors) + 1
    /\ 1 <= positioning.your_ranking
    /\ positioning.your_ranking <= positioning.total_competitors
    /\ 0 <= positioning.percentile
    /\ positioning.percentile <= 1000

(* The caller alone: an empty competitor list. *)
C8_Witness ==
  /\ HasPositioning
  /\ competitors = <<>>
  /\ positioning.your_ranking = 1
  /\ positioning.percentile = 0

(* C9: online_presence_score is 40 for a website, plus 30 + min(followers /
   1000, 20) for Instagram, plus 10 for Facebook, reported to one decimal;
   it lies in [0, 100] and the follower bonus is not counted without
   Instagram. *)
C9_OnlinePresenceScore ==
  HasPositioning =>
    LET online == Get(your_business, "online_presence", EmptyDict)
        followers == Get(online, "instagram_followers", 0)
        expected ==
          (IF Get(online, "has_website", FALSE) THEN 40000 ELSE 0)
          + (IF Get(online, "has_instagram", FALSE)
             THEN 30000 + (IF followers <= 20000 THEN followers ELSE 20000)
             ELSE 0)
          + (IF Get(online, "has_facebook", FALSE) THEN 10000 ELSE 0)
    IN  /\ 2 * (100 * positioning.online_presence_score - expected) <= 100
        /\ 2 * (expected - 100 * positioning.online_presence_score) <= 100
        /\ 0 <= positioning.online_presence_score
        /\ positioning.online_presence_score <= 1000

(* Followers without Instagram: the bonus is left out. *)
C9_Witness ==
  /\ HasPositioning
  /\ "online_presence" \in DOMAIN your_business
  /\ Get(your_business.online_presence, "has_instagram", TRUE) = FALSE
  /\ Get(your_business.online_presence, "instagram_followers", 0) = 25000
  /\ Get(your_business.online_presence, "has_website", FALSE)
  /\ positioning.online_presence_score = 400

HasMarketShare == Assigned(market_share) /\ market_share # None

(* The revenue of the whole market: every competitor's and the caller's. *)
MarketRevenue ==
  SumSeq([i \in 1..Len(competitors) |->
            competitors[i].estimated_monthly_revenue])
  + (IF Truthy(your_business)
     THEN Get(your_business, "estimated_monthly_revenue", 0)
     ELSE 0)

(* C10: for a non-empty competitor list with non-negative revenues
   concentration_ratio and your_estimated_share lie in [0, 100]; when the
   total market revenue is 0 both are 0 and so is every top-3 share. *)
C10_SharesInRange ==
  HasMarketShare =>
    /\ 0 <= market_share.concentration_ratio
    /\ market_share.concentration_ratio <= 1000
    /\ 0 <= market_share.your_estimated_share
    /\ market_share.your_estimated_share <= 1000
    /\ MarketRevenue = 0 =>
         /\ market_share.concentration_ratio = 0
         /\ market_share.your_estimated_share = 0
         /\ \A i \in 1..Len(market_share.top_3_competitors) :
              market_share.top_3_competitors[i].market_share = 0

(* A market of competitors and a caller that all report revenue 0. *)
C10_Witness ==
  /\ HasMarketShare
  /\ Len(competitors) >= 2
  /\ Truthy(your_business)
  /\ MarketRevenue = 0
  /\ Len(market_share.top_3_competitors) >= 2

(* The market_share values of top_3_competitors, in tenths of a percent. *)
TopShares ==
  [i \in 1..Len(market_share.top_3_competitors) |->
     market_share.top_3_competitors[i].market_share]

(* C11: when the total market revenue is positive, the top-3 shares and
   your_estimated_share of a market of at most 3 competitors sum to 100,
   concentration_ratio equals the sum of the top-3 shares, both within the
   rounding of the terms (0.05 each), and concentration_ratio is at least
   every top-3 share. *)
C11_SharesAddUp ==
  (HasMarketShare /\ MarketRevenue > 0) =>
    LET shares == SumSeq(TopShares)
        whole == shares + market_share.your_estimated_share
        terms == Len(TopShares) + 1
    IN  /\ Len(competitors) <= 3 =>
             /\ 2 * (whole - 1000) <= terms
             /\ 2 * (1000 - whole) <= terms
        /\ 2 * (market_share.concentration_ratio - shares) <= terms
        /\ 2 * (shares - market_share.concentration_ratio) <= terms
        /\ \A i \in 1..Len(TopShares) :
             market_share.concentration_ratio >= TopShares[i]

(* Three competitors and a caller whose rounded shares do not sum to 100.0
   exactly. *)
C11_Witness ==
  /\ HasMarketShare
  /\ MarketRevenue > 0
  /\ Len(competitors) = 3
  /\ Truthy(your_business)
  /\ market_share.your_estimated_share > 0
  /\ SumSeq(TopShares) + market_share.your_estimated_share # 1000

(* The revenue of the competitors listed in top_3_competitors. *)
TopRevenue ==
  SumSeq([i \in 1..Len(market_share.top_3_competitors) |->
            market_share.top_3_competitors[i].estimated_revenue])

(* C12, as claimed: market_structure agrees with the reported
   concentration_ratio: Fragmented iff it is below 40, Moderate iff it is
   in [40, 70), Concentrated iff it is at least 70. *)
C12_StructureMatchesReportedRatio ==
  HasMarketShare =>
    LET label == market_share.market_structure
        reported == market_share.concentration_ratio
    IN  /\ label = "Fragmented" <=> reported < 400
        /\ label = "Moderate" <=> (400 <= reported /\ reported < 700)
        /\ label = "Concentrated" <=> reported >= 700

(* C12, amended: market_structure follows the unrounded CR3 (the top-3
   revenue over the total market revenue, 0 for an empty market); the
   reported concentration_ratio, rounded to one decimal, lies in the closed
   band of its label and may equal its upper threshold; revenues 100, 200,
   300 with no caller give 100.0 and Concentrated. *)
C12_StructureFollowsUnroundedRatio ==
  HasMarketShare =>
    LET label == market_share.market_structure
        reported == market_share.concentration_ratio
        below40 == IF MarketRevenue > 0
                   THEN TopRevenue * 100 < 40 * MarketRevenue ELSE TRUE
        below70 == IF MarketRevenue > 0
                   THEN TopRevenue * 100 < 70 * MarketRevenue ELSE TRUE
    IN  /\ label = "Fragmented" <=> below40
        /\ label = "Moderate" <=> (~below40 /\ below70)
        /\ label = "Concentrated" <=> ~below70
        /\ label = "Fragmented" => reported <= 400
        /\ label = "Moderate" => (400 <= reported /\ reported <= 700)
        /\ label = "Concentrated" => reported >= 700
        /\ (~Truthy(your_business) /\ Len(competitors) = 3
            /\ {competitors[i].estimated_monthly_revenue : i \in 1..3}
                 = {100, 200, 300}) =>
             (reported = 1000 /\ label = "Concentrated")

(* A Fragmented market whose reported concentration_ratio is 40.0. *)
C12_Witness ==
  /\ HasMarketShare
  /\ market_share.market_structure = "Fragmented"
  /\ market_share.concentration_ratio = 400

(* The position in the competitor list of the i-th entry of
   top_3_competitors, found by its name. *)
TopPosition(i) ==
  CHOOSE k \in 1..Len(competitors) :
    competitors[k].name = market_share.top_3_competitors[i].name

(* C13: top_3_competitors holds min(3, n) distinct competitors of the list
   in descending order of estimated_monthly_revenue, competitors of equal
   revenue in their input order, and no competitor outside it has strictly
   greater revenue than one inside. *)
C13_TopThreeStableDescending ==
  HasMarketShare =>
    LET top == market_share.top_3_competitors
        n == Len(competitors)
        inside == {TopPosition(i) : i \in 1..Len(top)}
    IN  /\ Len(top) = Min(3, n)
        /\ \A i \in 1..Len(top) :
             /\ \E k \in 1..n : competitors[k].name = top[i].name
             /\ top[i].estimated_revenue
                  = competitors[TopPosition(i)].estimated_monthly_revenue
        /\ Cardinality(inside) = Len(top)
        /\ \A i, j \in 1..Len(top) :
             i < j =>
               \/ top[i].estimated_revenue > top[j].estimated_revenue
               \/ /\ top[i].estimated_revenue = top[j].estimated_revenue
                  /\ TopPosition(i) < TopPosition(j)
        /\ \A k \in (1..n) \ inside : \A i \in 1..Len(top) :
             competitors[k].estimated_monthly_revenue
               <= top[i].estimated_revenue

(* More than three competitors, the second and third of the top three with
   equal revenue, and a competitor of that revenue left outside. *)
C13_Witness ==
  /\ HasMarketShare
  /\ Len(competitors) > 3
  /\ LET top == market_share.top_3_competitors
     IN  /\ top[2].estimated_revenue = top[3].estimated_revenue
         /\ \E k \in 1..Len(competitors) :
              /\ \A i \in 1..3 : competitors[k].name # top[i].name
              /\ competitors[k].estimated_monthly_revenue
                   = top[3].estimated_revenue

(* The recommendation list has been returned. *)
HasKpis == pc \in {"summary", "done"}

(* The metrics of the returned recommendations, in order. *)
Metrics == [i \in 1..Len(kpis) |-> kpis[i].metric]

(* The positions of the returned list that hold the given metric. *)
MetricAt(metric) == {i \in 1..Len(kpis) : kpis[i].metric = metric}

(* C14, as claimed: the generic "maintain leadership" recommendation, with
   priority Medium, is returned if and only if no other rule fired, so the
   returned list is never empty, an empty competitor list included, and the
   generic entry never appears with another recommendation. *)
C14_GenericIffNoRuleFired ==
  HasKpis =>
    /\ Len(kpis) >= 1
    /\ \A i \in MetricAt("Manutencao de Lideranca") :
         Len(kpis) = 1 /\ kpis[i].priority = "Medium"

(* C15, as claimed: whenever the MarketDensityAnalysis passed to
   generate_kpi_recommendations has market_saturation_score > 70 the result
   holds the market-saturation warning with priority High, with or without
   a caller profile, and when the score is <= 70 it holds no such warning. *)
C15_SaturationWarning ==
  pc = "engine_done" =>
    /\ market_density.market_saturation_score > 700 =>
         \E i \in MetricAt("Saturacao de Mercado") : kpis[i].priority = "High"
    /\ market_density.market_saturation_score <= 700 =>
         MetricAt("Saturacao de Mercado") = {}

(* The numbers of competitors that have Instagram, offer delivery and
   accept PIX. *)
CompetitorsWithInstagram ==
  Cardinality({i \in 1..Len(competitors) :
                 competitors[i].online_presence.has_instagram})

CompetitorsWithDelivery ==
  Cardinality({i \in 1..Len(competitors) : competitors[i].has_delivery})

CompetitorsWithPix ==
  Cardinality({i \in 1..Len(competitors) : competitors[i].accepts_pix})

(* The metric is in the returned list, with the given priority. *)
Emitted(metric, priority) ==
  /\ MetricAt(metric) # {}
  /\ \A i \in MetricAt(metric) : kpis[i].priority = priority

(* C16: each of the five caller-relative recommendations is returned if and
   only if a caller profile is present and its condition holds over the
   competitors alone: rating below their mean rating (High), review_count
   below their mean review count (Medium), no Instagram while strictly more
   than 50% of them have it (High), no delivery while strictly more than
   60% offer it (High), no PIX while strictly more than 70% accept it
   (High); a field the profile lacks counts as 0 or as not offered, and with
   no profile none of the five is returned. *)
C16_CallerRelativeRules ==
  HasKpis =>
    LET n == Len(competitors)
        present == Truthy(your_business)
        ratings == SumSeq([i \in 1..n |-> competitors[i].rating])
        reviews == SumSeq([i \in 1..n |-> competitors[i].review_count])
        lacks(field) == ~Get(your_business, field, FALSE)
        lacks_instagram ==
          ~Get(Get(your_business, "online_presence", EmptyDict),
               "has_instagram", FALSE)
    IN  /\ Emitted("Avaliacao Google", "High")
             <=> (present /\ n > 0 /\ Get(your_business, "rating", 0) * n < ratings)
        /\ MetricAt("Avaliacao Google") # {}
             => Emitted("Avaliacao Google", "High")
        /\ Emitted("Numero de Avaliacoes", "Medium")
             <=> (present /\ n > 0
                  /\ Get(your_business, "review_count", 0) * n < reviews)
        /\ MetricAt("Numero de Avaliacoes") # {}
             => Emitted("Numero de Avaliacoes", "Medium")
        /\ Emitted("Presenca no Instagram", "High")
             <=> (present /\ lacks_instagram
                  /\ 2 * CompetitorsWithInstagram > n)
        /\ MetricAt("Presenca no Instagram") # {}
             => Emitted("Presenca no Instagram", "High")
        /\ Emitted("Delivery", "High")
             <=> (present /\ lacks("has_delivery")
                  /\ 5 * CompetitorsWithDelivery > 3 * n)
        /\ MetricAt("Delivery") # {} => Emitted("Delivery", "High")
        /\ Emitted("Pagamento PIX", "High")
             <=> (present /\ lacks("accepts_pix")
                  /\ 10 * CompetitorsWithPix > 7 * n)
        /\ MetricAt("Pagamento PIX") # {} => Emitted("Pagamento PIX", "High")
        /\ ~present =>
             \A i \in 1..Len(kpis) :
               kpis[i].metric \in {"Saturacao de Mercado",
                                   "Manutencao de Lideranca"}

(* A caller at the competitors' mean rating, below their mean review count
   and without the three capabilities, among 10 competitors of which
   exactly 50% have Instagram and exactly 70% offer delivery and PIX: the
   review and the delivery recommendations are returned, and no other. *)
C16_Witness ==
  /\ HasKpis
  /\ your_business = CallerAtMean
  /\ Len(competitors) = 10
  /\ CompetitorsWithInstagram = 5
  /\ CompetitorsWithPix = 7
  /\ Metrics = <<"Numero de Avaliacoes", "Delivery">>

(* The place of a metric in the order Google Rating, Review Count,
   Instagram, Market Saturation, Delivery, PIX; the generic recommendation
   comes after them and any other metric has no place. *)
MetricRank(metric) ==
  CASE metric = "Avaliacao Google" -> 1
    [] metric = "Numero de Avaliacoes" -> 2
    [] metric = "Presenca no Instagram" -> 3
    [] metric = "Saturacao de Mercado" -> 4
    [] metric = "Delivery" -> 5
    [] metric = "Pagamento PIX" -> 6
    [] metric = "Manutencao de Lideranca" -> 7
    [] OTHER -> 0

(* C17: the returned recommendations are in the relative order Google
   Rating, Review Count, Instagram, Market Saturation, Delivery, PIX, each
   metric at most once, at most 6 entries in all, and every entry has a
   priority among High, Medium and Low. *)
C17_FixedOrder ==
  HasKpis =>
    /\ \A i \in 1..Len(kpis) : MetricRank(kpis[i].metric) > 0
    /\ \A i, j \in 1..Len(kpis) :
         i < j => MetricRank(kpis[i].metric) < MetricRank(kpis[j].metric)
    /\ Len(kpis) <= 6
    /\ \A i \in 1..Len(kpis) : kpis[i].priority \in {"High", "Medium", "Low"}

(* All six rules fired. *)
C17_Witness ==
  /\ HasKpis
  /\ Metrics = <<"Avaliacao Google", "Numero de Avaliacoes",
                 "Presenca no Instagram", "Saturacao de Mercado",
                 "Delivery", "Pagamento PIX">>

(* The sentences of the summary, in order. *)
SummarySentences == [i \in 1..Len(summary) |-> summary[i].part]

(* C18: the summary holds the market-structure sentence if and only if a
   market-share estimate was computed and the "top X%" remark if and only
   if positioning exists and its percentile is >= 50; the competitor-count
   and the density sentences are always there, and come first. *)
C18_SummarySentences ==
  pc = "done" =>
    /\ SummarySentences =
         <<"competitors", "density">>
         \o (IF market_share # None THEN <<"structure">> ELSE <<>>)
         \o (IF positioning # None /\ positioning.percentile >= 500
             THEN <<"top">> ELSE <<>>)
    /\ summary[1].count = Len(competitors)
    /\ summary[2].density_level = market_density.density_level
    /\ \A i \in 1..Len(summary) :
         summary[i].part = "structure" =>
           summary[i].market_structure = market_share.market_structure

(* A caller at percentile exactly 50, told to be in the top 50%, and a
   market structure. *)
C18_Witness ==
  /\ pc = "done"
  /\ positioning # None
  /\ positioning.percentile = 500
  /\ SummarySentences = <<"competitors", "density", "structure", "top">>
  /\ summary[4].percent = 50

(* C19: generate_analytics is a pure function: during a call the competitor
   list, in order and content, the radius and the caller profile stay as
   they were passed, and a call with the arguments of the first call returns
   the report of the first call, whatever calls were made in between. *)
C19_PureFunction ==
  /\ Input(competitors, radius_km, your_business) = call_input
  /\ (pc = "done" /\ first_call # Unassigned
      /\ call_input = first_call.input) => Report = first_call.report

(* A third call, with the arguments of the first after a call with other
   arguments, has returned; the list is not in descending order of revenue,
   a caller profile is present and a market share was estimated. *)
C19_Witness ==
  /\ pc = "done"
  /\ first_call # Unassigned
  /\ call_input = first_call.input
  /\ first_call.between = 1
  /\ Truthy(your_business)
  /\ market_share # None
  /\ \E i, j \in 1..Len(competitors) :
       /\ i < j
       /\ competitors[i].estimated_monthly_revenue
            < competitors[j].estimated_monthly_revenue

(* C20, as claimed: for every input within the data model (ratings in
   [0, 5], counts and revenues >= 0, radius_km >= 0, coordinates within
   their ranges, caller present or absent, any competitor list)
   generate_analytics never raises, and the score, the percentile, the
   online-presence score and the share it computes are within the ranges
   the output models validate. *)
C20_NeverRaises ==
  /\ pc # "raised"
  /\ Assigned(market_density) =>
       market_density.market_saturation_score \in 0..1000
  /\ HasPositioning =>
       /\ positioning.percentile \in 0..1000
       /\ positioning.online_presence_score \in 0..1000
  /\ HasMarketShare => market_share.your_estimated_share \in 0..1000

(* C29, as claimed: for a non-empty competitor list and a non-empty caller
   profile, one that omits rating or review_count included, the engine and
   the positioning agree: the rating recommendation is returned only if
   above_average_rating is false, and the review-count recommendation only
   if above_average_reviews is false. *)
C29_EngineAgreesWithPositioning ==
  (HasKpis /\ HasPositioning /\ Len(competitors) > 0) =>
    /\ MetricAt("Avaliacao Google") # {} => ~ positioning.above_average_rating
    /\ MetricAt("Numero de Avaliacoes") # {}
         => ~ positioning.above_average_reviews

-----------------------------------------------------------------------------
(* Properties of the demo-request flow *)

(* process_demo_request has returned or raised. *)
DemoEnded == demo_pc \in {"returned", "raised", "answered"}

(* The status histories of a row that moves pending -> processing ->
   completed or failed, with no step skipped and nothing after the end. *)
StatusPaths ==
  {<<"pending">>, <<"pending", "processing">>,
   <<"pending", "processing", "completed">>,
   <<"pending", "processing", "failed">>}

(* C21, as claimed: the persisted status of every demo request is created
   as pending and only moves pending -> processing -> completed or
   pending -> processing -> failed; completed and failed are final and no
   step is skipped, wherever the analysis, the persistence or the email
   fails. *)
C21_StatusMachine ==
  \A id \in 1..Len(store) :
    /\ trail[id] \in StatusPaths
    /\ store[id].status = trail[id][Len(trail[id])]

(* The steps of the try block: the commits, the competitor search, the
   analytics and the building of the response. *)
TrySteps == {"set_processing", "search", "analytics", "store_results", "respond"}

(* C22, as claimed: whenever a collaborator fails while a demo request is
   processed (the competitor search, the analytics, a commit or the building
   of the response), the persisted status of the request becomes failed
   with error_message set, and the client gets the fixed generic message
   and never the text of the exception. *)
C22_FailureIsRecordedAndHidden ==
  (demo_pc = "answered" /\ failures \cap TrySteps # {}) =>
    /\ store[current].status = "failed"
    /\ store[current].error_message # None
    /\ response.message = "generic error"

(* C23: the analysis email is attempted only once the results are stored
   and the status completed is committed, and at most once per request; an
   email that reports failure leaves the request completed, and when
   nothing else fails the success response is returned. *)
C23_EmailAfterCompleted ==
  /\ email_attempts <= 1
  /\ (demo_pc = "email" \/ email_attempts = 1) =>
       /\ SubSeq(trail[current], 1, 3) = <<"pending", "processing", "completed">>
       /\ store[current].analysis_results # None
  /\ (demo_pc = "respond" /\ ~email_sent) =>
       store[current].status = "completed"
  /\ (DemoEnded /\ email_attempts = 1 /\ ~email_sent /\ failures = {}) =>
       /\ store[current].status = "completed"
       /\ response = [status |-> "completed", message |-> "success"]

(* The email reported failure and the client got the success response. *)
C23_Witness ==
  /\ demo_pc = "answered"
  /\ email_attempts = 1
  /\ ~email_sent
  /\ store[current].status = "completed"
  /\ response.message = "success"

(* C26, as claimed: every demo request whose record was created reaches a
   terminal status: when process_demo_request has returned or raised,
   whatever failed on the way, the persisted status of the request is
   completed or failed, never pending or processing. *)
C26_EndsInTerminalStatus ==
  (DemoEnded /\ "create" \notin failures) =>
    store[current].status \in {"completed", "failed"}


(* C28: in every state of the demo-request table a completed request has
   analysis_results and no error_message, a failed request has an
   error_message, and a pending or processing request has neither. *)
C28_FieldsFollowStatus ==
  \A id \in 1..Len(store) :
    LET row == store[id]
    IN  /\ row.status = "completed" =>
             row.analysis_results # None /\ row.error_message = None
        /\ row.status = "failed" => row.error_message # None
        /\ row.status \in {"pending", "processing"} =>
             row.analysis_results = None /\ row.error_message = None

(* The table holds a completed request and a failed one. *)
C28_Witness ==
  /\ \E id \in 1..Len(store) :
       /\ store[id].status = "completed"
       /\ store[id].analysis_results # None
  /\ \E id \in 1..Len(store) :
       /\ store[id].status = "failed"
       /\ store[id].error_message # None

-----------------------------------------------------------------------------
(* Properties of the competitor source *)

(* The search has returned its list. *)
SearchReturned == source_pc = "returned"

(* No key of the table is the stripped name, contains it or is contained in
   it, whatever the case. *)
UnknownName(raw, keys) ==
  \A i \in 1..Len(keys) :
    /\ keys[i] # Strip(raw)
    /\ ~ Contains(Lower(keys[i]), Lower(Strip(raw)))
    /\ ~ Contains(Lower(Strip(raw)), Lower(keys[i]))

(* The digits of a string. *)
DigitsOf(s) ==
  SelectSeq(s, LAMBDA c : \E i \in 1..Len(DecimalDigits) : DecimalDigits[i] = c)

(* The distance in metres of a returned competitor from the reference
   point: the coordinates of the query or, without them, the centre of the
   competitor's city. *)
DistanceFromReference(c) ==
  IF query.coordinates # None
  THEN calculate_distance(query.coordinates.latitude,
                          query.coordinates.longitude,
                          c.latitude, c.longitude)
  ELSE calculate_distance(CityData(c.city).lat, CityData(c.city).lng,
                          c.latitude, c.longitude)

(* A filter of the query is given: neither None nor the empty string. *)
Given(filter) == filter # None /\ filter.text # <<>>

(* C24: a search over the mock source returns at most max_results
   competitors; every one of them lies within radius_km of the reference
   point, has the neighborhood filter in its neighborhood and the first five
   digits of the CEP filter at the start of its postal code, when these
   filters are given; an unknown city or category is searched as the default
   one, and the search does not raise. *)
C24_SearchContract ==
  /\ source_pc # "raised"
  /\ SearchReturned =>
       /\ Len(found) <= query.max_results
       /\ \A i \in 1..Len(found) :
            /\ DistanceFromReference(found[i]) <= query.radius_km * 100
            /\ Given(query.neighborhood) =>
                 Contains(Lower(query.neighborhood.text),
                          Lower(found[i].neighborhood))
            /\ Given(query.cep) =>
                 Slice(DigitsOf(found[i].postal_code), 5)
                   = Slice(DigitsOf(query.cep.text), 5)
            /\ UnknownName(query.city, CityKeys) =>
                 found[i].city = DefaultCity
            /\ UnknownName(query.category, BUSINESS_CATEGORIES) =>
                 found[i].category = DefaultCategory

(* A search for an unknown city and category with both filters that
   returns max_results competitors and has left out an entry of the mock
   data that is too far and one that fails a filter. *)
C24_Witness ==
  /\ SearchReturned
  /\ UnknownName(query.city, CityKeys)
  /\ UnknownName(query.category, BUSINESS_CATEGORIES)
  /\ Given(query.neighborhood)
  /\ Given(query.cep)
  /\ query.max_results = 2
  /\ Len(found) = 2
  /\ \E i \in 1..Len(log[1].data) :
       DistanceFromReference(log[1].data[i]) > query.radius_km * 100
  /\ \E i \in 1..Len(log[1].data) :
       /\ DistanceFromReference(log[1].data[i]) <= query.radius_km * 100
       /\ ~ Contains(Lower(query.neighborhood.text),
                     Lower(log[1].data[i].neighborhood))

(* C25, as claimed: the returned list is in ascending order of distance_km,
   results at distance 0.0 included: each result is no farther from the
   reference point than the next one. *)
C25_AscendingDistance ==
  SearchReturned =>
    \A i \in 1..(Len(found) - 1) :
      found[i].distance_km <= found[i + 1].distance_km

(* The cache key of a call in the log. *)
KeyOf(call) == cache_key(call.city, call.category, call.count)

(* Two calls of the log have the same (city, category, count). *)
SameArguments(a, b) ==
  /\ a.city = b.city
  /\ a.category = b.category
  /\ a.count = b.count

(* C27: after any sequence of calls of get_mock_competitors, every call
   returned the data of the first call with its (city, category, count),
   the generator ran at most once for it, and the data every call returned
   is still what the cache holds for its key: no entry is evicted,
   overwritten or changed by a call with another key. *)
C27_CacheIdempotent ==
  \A i \in 1..Len(log) :
    ~ log[i].raised =>
      /\ KeyOf(log[i]) \in DOMAIN MOCK_DATA_CACHE
      /\ MOCK_DATA_CACHE[KeyOf(log[i])] = log[i].data
      /\ \A j \in (i + 1)..Len(log) :
           SameArguments(log[i], log[j]) =>
             /\ ~ log[j].raised
             /\ ~ log[j].ran
             /\ log[j].data = log[i].data
      /\ (i = Len(log) /\ source_pc = "get") => found = log[i].data

(* Three calls: the third repeats the first after a call with another key,
   and the generator did not run for it. *)
C27_Witness ==
  /\ source_pc = "get"
  /\ Len(log) = 3
  /\ SameArguments(log[1], log[3])
  /\ ~ SameArguments(log[1], log[2])
  /\ ~ log[1].raised
  /\ ~ log[2].raised
  /\ log[1].ran
  /\ ~ log[3].ran
  /\ log[2].data # log[1].data
  /\ found = log[1].data

-----------------------------------------------------------------------------
(* Properties of the CNPJ service *)

(* The digits of the submitted CNPJ. *)
SubmittedDigits == SelectSeq(submitted, IsDigit)

(* The call has been made. *)
Has(name) == name \in DOMAIN checked

(* C30, as claimed: for a string with exactly 14 digits validate_cnpj gives
   the same for the string and for format_cnpj of it, and formatting twice
   gives what formatting once gives; validate_cnpj rejects every string
   whose digit count is not 14 and every string whose 14 digits are all
   equal; lookup_cnpj returns a record if and only if validate_cnpj is
   true. *)
C30_FormattingIndependent ==
  /\ (Len(SubmittedDigits) = 14 /\ Has("valid") /\ Has("valid_formatted")) =>
       checked.valid_formatted = checked.valid
  /\ (Len(SubmittedDigits) = 14 /\ Has("formatted_twice")) =>
       checked.formatted_twice = checked.formatted
  /\ (Len(SubmittedDigits) # 14 /\ Has("valid")) => ~ checked.valid
  /\ (/\ Len(SubmittedDigits) = 14
      /\ \A i, j \in 1..14 :
           DigitValue(SubmittedDigits[i]) = DigitValue(SubmittedDigits[j])
      /\ Has("valid")) => ~ checked.valid
  /\ (Has("valid") /\ Has("record")) =>
       (checked.record # None <=> checked.valid)

====
